---------------------------- MODULE Spec2Model ----------------------------
(***************************************************************************)
(* Affinity-mapping and rate-computation engine of the NIC tuning tools:   *)
(*   net.py   RPS/XPS queue -> CPU masks (NicQueueConfig)                  *)
(*   msix.py  MSI-X interrupt -> CPU binding (IrqCpuBinder)                *)
(*   q.py     per-queue rate sampling (calculate_speed)                    *)
(*                                                                         *)
(* A Python str is a sequence of one-character strings, a list is a        *)
(* sequence, a dict is a function whose DOMAIN is its key set.  A call     *)
(* that raises returns [ok |-> FALSE, err |-> <kind of the message>].      *)
(***************************************************************************)
EXTENDS Integers, Sequences, FiniteSets, TLC

VARIABLES
    pc,     \* position of the running operation: "call", "loop", "done"
    fn,     \* the operation that was invoked
    src,    \* the request the argument text was written from (what the caller meant)
    arg,    \* the arguments handed to the operation
    ret,    \* what the operation returned or raised; NoRet before it ran
    dev,    \* the device's pseudo-files (masks, affinity lists) as the kernel holds them
    loc     \* the running operation's local variables and what it reported

vars == <<pc, fn, src, arg, ret, dev, loc>>

None == "None"

NoRet == [ok |-> FALSE, err |-> "not run"]

Ok(v) == [ok |-> TRUE, val |-> v]

Raise(kind) == [ok |-> FALSE, err |-> kind]

(***************************************************************************)
(* Bounds of the checked inputs.                                           *)
(***************************************************************************)
MaxId == 3          \* ids written in a range string are 0..MaxId
MaxToks == 2        \* tokens in a range string
MaxClauseId == 2    \* ids written in a single mapping clause are 0..MaxClauseId
MaxMapId == 1       \* ids written in a mapping string of several clauses are 0..MaxMapId
MaxSegs == 2        \* 32-bit segments of a device mask
MaxIrqs == 3        \* MSI-X interrupts of the device
MaxBindCpus == 2    \* CPUs 1..MaxBindCpus may be named in the bind request
MaxRateId == 1      \* queue ids 0..MaxRateId occur in the counter snapshots
MaxCfgQueue == 2    \* the device has 1..MaxCfgQueue queues; requests name queues 0..MaxCfgQueue
MaxPieces == 3      \* comma-separated pieces of a raw range string
MaxPieceId == 1     \* ids written in the good pieces of a raw range string are 0..MaxPieceId
MaxCpus == 2        \* CPUs handed to one generate_mask call
MaxMaskPieces == 2  \* comma-separated pieces of a raw mask string
MaxRawClauses == 2  \* comma-separated pieces of a raw mapping string
MaxLabelWords == 3  \* words joined by "-" in an interrupt label
MaxCount == 2       \* --count values 0..MaxCount; a run is followed for MaxCount + 1 cycles
MaxListClauses == 2 \* clauses of a mapping string whose CPU lists are examined
MaxHostCpus == 2    \* the host has 1..MaxHostCpus CPUs; bind requests name CPUs 0..MaxHostCpus

(***************************************************************************)
(* Python str / list primitives.                                           *)
(***************************************************************************)
Range(s) == {s[i] : i \in DOMAIN s}

Digits == {"0", "1", "2", "3", "4", "5", "6", "7", "8", "9"}

DigitVal(c) ==
    CASE c = "0" -> 0 [] c = "1" -> 1 [] c = "2" -> 2 [] c = "3" -> 3
      [] c = "4" -> 4 [] c = "5" -> 5 [] c = "6" -> 6 [] c = "7" -> 7
      [] c = "8" -> 8 [] c = "9" -> 9

DigitChar(d) ==
    CASE d = 0 -> "0" [] d = 1 -> "1" [] d = 2 -> "2" [] d = 3 -> "3"
      [] d = 4 -> "4" [] d = 5 -> "5" [] d = 6 -> "6" [] d = 7 -> "7"
      [] d = 8 -> "8" [] d = 9 -> "9"

\* str.isdigit(): non-empty and every character a digit
isdigit(s) == Len(s) > 0 /\ \A i \in DOMAIN s : s[i] \in Digits

\* int(s) of a digit string
RECURSIVE int(_)
int(s) ==
    IF Len(s) = 0 THEN 0
    ELSE int(SubSeq(s, 1, Len(s) - 1)) * 10 + DigitVal(s[Len(s)])

\* str(n) of a non-negative integer
RECURSIVE str(_)
str(n) == IF n < 10 THEN <<DigitChar(n)>> ELSE str(n \div 10) \o <<DigitChar(n % 10)>>

\* s.split(c): the pieces between the occurrences of c, empty pieces kept
RECURSIVE split(_, _)
split(s, c) ==
    IF c \notin Range(s) THEN <<s>>
    ELSE LET k == CHOOSE i \in DOMAIN s : s[i] = c /\ \A j \in 1..(i - 1) : s[j] # c
         IN  <<SubSeq(s, 1, k - 1)>> \o split(SubSeq(s, k + 1, Len(s)), c)

\* the whitespace characters that occur in the inputs
Whitespace == {" ", "\t", "\n"}

\* s.strip(): leading and trailing whitespace removed
RECURSIVE strip(_)
strip(s) ==
    IF Len(s) = 0 THEN s
    ELSE IF s[1] \in Whitespace THEN strip(Tail(s))
    ELSE IF s[Len(s)] \in Whitespace THEN strip(SubSeq(s, 1, Len(s) - 1))
    ELSE s

\* sep.join(parts)
RECURSIVE join(_, _)
join(sep, parts) ==
    IF Len(parts) = 0 THEN <<>>
    ELSE IF Len(parts) = 1 THEN parts[1]
    ELSE parts[1] \o sep \o join(sep, Tail(parts))

\* list(range(a, b + 1))
RangeList(a, b) == [i \in 1..(b - a + 1) |-> a + i - 1]

\* sorted(S) of a set of integers
sorted(S) ==
    IF S = {} THEN <<>>
    ELSE LET lo == CHOOSE x \in S : \A y \in S : x <= y
             hi == CHOOSE x \in S : \A y \in S : x >= y
         IN  SelectSeq(RangeList(lo, hi), LAMBDA x : x \in S)

RECURSIVE SeqsUpTo(_, _)
SeqsUpTo(S, n) ==
    IF n = 0 THEN {<<>>}
    ELSE LET shorter == SeqsUpTo(S, n - 1)
         IN  shorter \cup {Append(s, x) : s \in {t \in shorter : Len(t) = n - 1}, x \in S}

(***************************************************************************)
(* NicQueueConfig.parse_range                                              *)
(***************************************************************************)
\* p.strip() for p in range_str.split(','): the blank pieces kept
RangePartsKeepBlank(range_str) ==
    LET raw == split(range_str, ",")
    IN  [i \in DOMAIN raw |-> strip(raw[i])]

\* p.strip() for p in range_str.split(',') if p.strip()
RangeParts(range_str) ==
    LET raw == split(range_str, ",")
    IN  SelectSeq([i \in DOMAIN raw |-> strip(raw[i])], LAMBDA p : Len(p) > 0)

\* re.match(r"^(\d+)-(\d+)$", part)
RangeMatch(part) ==
    \E k \in DOMAIN part :
        /\ part[k] = "-"
        /\ isdigit(SubSeq(part, 1, k - 1))
        /\ isdigit(SubSeq(part, k + 1, Len(part)))

RangeStart(part) ==
    LET k == CHOOSE i \in DOMAIN part : part[i] = "-"
    IN  int(SubSeq(part, 1, k - 1))

RangeEnd(part) ==
    LET k == CHOOSE i \in DOMAIN part : part[i] = "-"
    IN  int(SubSeq(part, k + 1, Len(part)))

\* one pass of the loop body with a token that is no number or range left out
ParsePartLenient(part) ==
    IF "-" \in Range(part)
    THEN IF ~RangeMatch(part) THEN Ok(<<>>)
         ELSE IF RangeStart(part) > RangeEnd(part) THEN Ok(<<>>)
         ELSE Ok(RangeList(RangeStart(part), RangeEnd(part)))
    ELSE IF ~isdigit(part) THEN Ok(<<>>)
         ELSE Ok(<<int(part)>>)

\* one pass of the loop body: the integers a token adds to res, or the error it raises
ParsePart(part) ==
    IF "-" \in Range(part)
    THEN IF ~RangeMatch(part) THEN Raise("invalid range format")
         ELSE IF RangeStart(part) > RangeEnd(part) THEN Raise("start > end")
         ELSE Ok(RangeList(RangeStart(part), RangeEnd(part)))
    ELSE IF ~isdigit(part) THEN Raise("invalid number")
         ELSE Ok(<<int(part)>>)

\* sorted(res): the duplicates of res kept
SortedKeepDup(res) == SortSeq(res, LAMBDA x, y : x < y)

\* sorted(list(set(res)))
SortedUnique(res) == sorted(Range(res))

RECURSIVE ParseParts(_, _)
ParseParts(parts, res) ==
    IF Len(parts) = 0 THEN Ok(SortedUnique(res))
    ELSE LET r == ParsePart(Head(parts))
         IN  IF ~r.ok THEN r ELSE ParseParts(Tail(parts), res \o r.val)

parse_range(range_str) == ParseParts(RangeParts(range_str), <<>>)

(***************************************************************************)
(* Range requests: what a caller means by a range string.  A token is a    *)
(* bare id (a = b, dash FALSE) or a range a-b with a <= b.                 *)
(***************************************************************************)
Tokens ==
    {[a |-> x, b |-> x, dash |-> FALSE] : x \in 0..MaxId}
    \cup {[a |-> p[1], b |-> p[2], dash |-> TRUE] :
             p \in {q \in (0..MaxId) \X (0..MaxId) : q[1] <= q[2]}}

TokenText(t) == IF t.dash THEN str(t.a) \o <<"-">> \o str(t.b) ELSE str(t.a)

Denotes(toks) == UNION {t.a .. t.b : t \in Range(toks)}

\* the text of a request: tokens joined by commas, blanks around each token when pad
RangeText(toks, pad) ==
    join(<<",">>, [i \in DOMAIN toks |->
                 IF pad THEN <<" ">> \o TokenText(toks[i]) \o <<" ">>
                 ELSE TokenText(toks[i])])

Tok(x, y) == [a |-> x, b |-> y, dash |-> TRUE]

Bare(x) == [a |-> x, b |-> x, dash |-> FALSE]

\* requests with ids of more than one digit, among them "0-3,5" of the documentation
ExampleRanges == {<<Tok(0, 3), Bare(5)>>, <<Tok(9, 11), Bare(10)>>, <<Bare(12), Tok(8, 10)>>}

RangeRequests ==
    {[toks |-> t, pad |-> p] :
        t \in (SeqsUpTo(Tokens, MaxToks) \ {<<>>}) \cup ExampleRanges, p \in BOOLEAN}

InitRange ==
    /\ pc = "call"
    /\ fn = "parse_range"
    /\ src \in RangeRequests
    /\ arg = RangeText(src.toks, src.pad)
    /\ ret = NoRet
    /\ dev = None
    /\ loc = None

Call_parse_range ==
    /\ pc = "call"
    /\ fn = "parse_range"
    /\ ret' = parse_range(arg)
    /\ pc' = "done"
    /\ UNCHANGED <<fn, src, arg, dev, loc>>

NextRange == Call_parse_range

SpecRange == InitRange /\ [][NextRange]_vars

StrictlyIncreasing(l) == \A i \in 1..(Len(l) - 1) : l[i] < l[i + 1]

\* C4: for every well-formed range string, parse_range returns exactly the
\* integers its tokens denote, as a strictly increasing list without duplicates,
\* whatever the order and the overlap of the tokens.
C4_ParseRangeDenotation ==
    (fn = "parse_range" /\ pc = "done") =>
        /\ ret.ok
        /\ Range(ret.val) = Denotes(src.toks)
        /\ StrictlyIncreasing(ret.val)

\* an unordered, overlapping request "2-3,0-2" was parsed
C4_Witness ==
    /\ fn = "parse_range" /\ pc = "done"
    /\ src.toks = <<Tok(2, 3), Tok(0, 2)>>
    /\ ret.ok /\ ret.val = <<0, 1, 2, 3>>

(***************************************************************************)
(* Mask codec: NicQueueConfig.generate_mask and mask_to_cpus.              *)
(* A segment value reaches 2^32 - 1, so an int is held as the set of the   *)
(* positions of its 1 bits.                                                *)
(***************************************************************************)
HexDigits == Digits \cup {"a", "b", "c", "d", "e", "f", "A", "B", "C", "D", "E", "F"}

HexVal(c) ==
    CASE c \in Digits -> DigitVal(c)
      [] c \in {"a", "A"} -> 10 [] c \in {"b", "B"} -> 11 [] c \in {"c", "C"} -> 12
      [] c \in {"d", "D"} -> 13 [] c \in {"e", "E"} -> 14 [] c \in {"f", "F"} -> 15

\* the digit the format code x writes
HexChar(v) ==
    CASE v < 10 -> DigitChar(v)
      [] v = 10 -> "a" [] v = 11 -> "b" [] v = 12 -> "c"
      [] v = 13 -> "d" [] v = 14 -> "e" [] v = 15 -> "f"

Pow2(j) == CASE j = 0 -> 1 [] j = 1 -> 2 [] j = 2 -> 4 [] j = 3 -> 8

\* re.match(r'^([0-9a-fA-F]{8},)*[0-9a-fA-F]{8}$', orig_mask); the $ of re
\* also matches before one newline that ends the string
MaskFormatOk(mask) ==
    LET body == IF Len(mask) > 0 /\ mask[Len(mask)] = "\n"
                THEN SubSeq(mask, 1, Len(mask) - 1) ELSE mask
        segs == split(body, ",")
    IN  \A i \in DOMAIN segs :
            Len(segs[i]) = 8 /\ \A k \in DOMAIN segs[i] : segs[i][k] \in HexDigits

\* seg_idx = len(segs) - 1 - cpu_grp, counted from the left as Python does
SegIdxFromLeft(cpu, nsegs) == cpu \div 32

SegIdx(cpu, nsegs) == nsegs - 1 - (cpu \div 32)

\* f"{val:x}": no leading zeros
HexUnpadded(bits) ==
    LET digit(k) ==
            HexChar(LET base == 4 * (8 - k)
                    IN  (IF base \in bits THEN 1 ELSE 0) + (IF base + 1 \in bits THEN 2 ELSE 0)
                        + (IF base + 2 \in bits THEN 4 ELSE 0)
                        + (IF base + 3 \in bits THEN 8 ELSE 0))
        first == IF bits = {} THEN 8
                 ELSE 8 - ((CHOOSE b \in bits : \A c \in bits : c <= b) \div 4)
    IN  [k \in 1..(9 - first) |-> digit(first + k - 1)]

\* f"{val:08x}" of a value below 2^32
Hex08(bits) ==
    [k \in 1..8 |->
        HexChar(LET base == 4 * (8 - k)
                IN  (IF base \in bits THEN 1 ELSE 0) + (IF base + 1 \in bits THEN 2 ELSE 0)
                    + (IF base + 2 \in bits THEN 4 ELSE 0) + (IF base + 3 \in bits THEN 8 ELSE 0))]

\* the loop over cpus with the CPUs outside the mask left out
RECURSIVE SetBitsSkipping(_, _)
SetBitsSkipping(cpus, seg_values) ==
    IF Len(cpus) = 0 THEN Ok(seg_values)
    ELSE LET cpu == Head(cpus)
             seg_idx == SegIdx(cpu, Len(seg_values))
         IN  IF seg_idx < 0 \/ seg_idx >= Len(seg_values)
             THEN SetBitsSkipping(Tail(cpus), seg_values)
             ELSE SetBitsSkipping(Tail(cpus),
                                  [seg_values EXCEPT ![seg_idx + 1] = @ \cup {cpu % 32}])

\* the loop over cpus: seg_values after it, or the error of the first CPU outside the mask
RECURSIVE SetBits(_, _)
SetBits(cpus, seg_values) ==
    IF Len(cpus) = 0 THEN Ok(seg_values)
    ELSE LET cpu == Head(cpus)
             seg_idx == SegIdx(cpu, Len(seg_values))
         IN  IF seg_idx < 0 \/ seg_idx >= Len(seg_values)
             THEN Raise("cpu outside mask")
             ELSE SetBits(Tail(cpus),
                          [seg_values EXCEPT ![seg_idx + 1] = @ \cup {cpu % 32}])

\* the new bits merged into the bits of the template
generate_mask_merged(cpus, orig_mask) ==
    LET segs == split(orig_mask, ",")
    IN  IF ~MaskFormatOk(orig_mask) THEN Raise("invalid mask format")
        ELSE LET r == SetBits(cpus, [i \in DOMAIN segs |->
                                        UNION {{4 * (8 - k) + j : j \in {b \in 0..3 :
                                                  (HexVal(segs[i][k]) \div Pow2(b)) % 2 = 1}} :
                                               k \in 1..8}])
             IN  IF ~r.ok THEN r
                 ELSE Ok(join(<<",">>, [i \in DOMAIN segs |-> Hex08(r.val[i])]))

generate_mask(cpus, orig_mask) ==
    LET segs == split(orig_mask, ",")
    IN  IF ~MaskFormatOk(orig_mask) THEN Raise("invalid mask format")
        ELSE LET r == SetBits(cpus, [i \in DOMAIN segs |-> {}])
             IN  IF ~r.ok THEN r
                 ELSE Ok(join(<<",">>, [i \in DOMAIN segs |-> Hex08(r.val[i])]))

\* int(seg, 16) as the set of its 1 bits
HexBits(seg) ==
    UNION {{4 * (Len(seg) - k) + j :
               j \in {i \in 0..3 : (HexVal(seg[k]) \div Pow2(i)) % 2 = 1}} :
           k \in DOMAIN seg}

\* the CPUs of the segment that is grp_idx-th from the right
SegCpus(seg, grp_idx) == {grp_idx * 32 + bit : bit \in HexBits(seg) \cap 0..31}

\* int(seg, 16) ignores the whitespace around the digits
mask_to_cpus(mask) ==
    LET segs == [i \in DOMAIN split(mask, ",") |-> strip(split(mask, ",")[i])]
    IN  IF \E i \in DOMAIN segs :
               Len(segs[i]) = 0 \/ \E k \in DOMAIN segs[i] : segs[i][k] \notin HexDigits
        THEN Raise("invalid literal for int")
        ELSE Ok(sorted(UNION {SegCpus(segs[i], Len(segs) - i) : i \in DOMAIN segs}))

Rep(c, n) == [i \in 1..n |-> c]

\* segments a device reports
SegPool == {Rep("0", 8), Rep("f", 8), <<"0", "0", "0", "0", "A", "5", "c", "3">>}

\* device masks of 1..MaxSegs segments
Templates == {join(<<",">>, [i \in 1..w |-> seg]) : w \in 1..MaxSegs, seg \in SegPool}

\* CPUs at the edges of every segment, the first ones beyond the widest mask included
CpuPool == {0, 1, 3, 31} \cup {32 * k + d : k \in 1..MaxSegs, d \in {0, 31}}

\* CPU lists that put several bits into one hex digit
ExampleCpuLists == {<<0, 1, 2, 3>>, <<4, 6, 7, 28, 29, 30, 31>>, <<5, 9, 10, 11, 14, 15>>}

InitCodec ==
    /\ pc = "call"
    /\ fn = "codec"
    /\ src = None
    /\ arg \in [cpus : SeqsUpTo(CpuPool, MaxCpus) \cup ExampleCpuLists, mask : Templates]
    /\ ret = NoRet
    /\ dev = None
    /\ loc = NoRet

\* new_mask = generate_mask(cpus, curr_mask)
Call_generate_mask ==
    /\ pc = "call"
    /\ fn = "codec"
    /\ ret' = generate_mask(arg.cpus, arg.mask)
    /\ pc' = IF ret'.ok THEN "encoded" ELSE "done"
    /\ UNCHANGED <<fn, src, arg, dev, loc>>

\* cpus = mask_to_cpus(mask) on the mask that was generated
Call_mask_to_cpus ==
    /\ pc = "encoded"
    /\ fn = "codec"
    /\ loc' = mask_to_cpus(ret.val)
    /\ pc' = "done"
    /\ UNCHANGED <<fn, src, arg, ret, dev>>

NextCodec == Call_generate_mask \/ Call_mask_to_cpus

SpecCodec == InitCodec /\ [][NextCodec]_vars

NumSegs(mask) == Len(split(mask, ","))

Representable(cpus, mask) == \A i \in DOMAIN cpus : cpus[i] < 32 * NumSegs(mask)

\* C3: for every template mask of w valid segments and every CPU list whose
\* members are all in [0, 32*w), generate_mask succeeds and mask_to_cpus of its
\* result is the list sorted ascending without duplicates.
C3_CodecRoundTrip ==
    (fn = "codec" /\ Representable(arg.cpus, arg.mask)) =>
        /\ pc # "call" => ret.ok
        /\ pc = "done" => (loc.ok /\ loc.val = sorted(Range(arg.cpus)))

\* CPUs 32 and 1, unsorted, went through a two-segment mask and came back as [1, 32]
C3_Witness ==
    /\ fn = "codec" /\ pc = "done"
    /\ arg.cpus = <<32, 1>> /\ NumSegs(arg.mask) = 2
    /\ ret.ok /\ loc.ok /\ loc.val = <<1, 32>>

(***************************************************************************)
(* NicQueueConfig.assign_cpus_to_queues                                    *)
(***************************************************************************)
\* a dict: the empty one, and d[k] = v
EmptyDict == [k \in {} |-> <<>>]

Put(d, k, v) == [x \in DOMAIN d \cup {k} |-> IF x = k THEN v ELSE d[x]]

\* all_cpus[min(i, cpu_cnt - 1)]: the surplus queues all get the last CPU
PickCpuClamped(i, all_cpus) ==
    all_cpus[(IF i < Len(all_cpus) THEN i ELSE Len(all_cpus) - 1) + 1]

\* all_cpus[i % cpu_cnt], i counted from 0 as enumerate does
PickCpu(i, all_cpus) == all_cpus[(i % Len(all_cpus)) + 1]

RECURSIVE AssignLoop(_, _, _, _)
AssignLoop(queues, all_cpus, i, queue_cpu_map) ==
    IF i >= Len(queues) THEN queue_cpu_map
    ELSE AssignLoop(queues, all_cpus, i + 1,
                    Put(queue_cpu_map, queues[i + 1], <<PickCpu(i, all_cpus)>>))

assign_cpus_to_queues(queues, all_cpus) ==
    IF Len(all_cpus) = 0 THEN Raise("empty CPU set")
    ELSE Ok(AssignLoop(queues, all_cpus, 0, EmptyDict))

\* sorted id lists, as parse_range hands them over
IdLists == {sorted(S) : S \in SUBSET (0..MaxId)}

InitAssign ==
    /\ pc = "call"
    /\ fn = "assign_cpus_to_queues"
    /\ src = None
    /\ arg \in [queues : IdLists, cpus : IdLists \cup {<<10, 20>>}]
    /\ ret = NoRet
    /\ dev = None
    /\ loc = None

Call_assign_cpus_to_queues ==
    /\ pc = "call"
    /\ fn = "assign_cpus_to_queues"
    /\ ret' = assign_cpus_to_queues(arg.queues, arg.cpus)
    /\ pc' = "done"
    /\ UNCHANGED <<fn, src, arg, dev, loc>>

NextAssign == Call_assign_cpus_to_queues

SpecAssign == InitAssign /\ [][NextAssign]_vars

\* C5: assign_cpus_to_queues maps ids[i] to the single CPU cpus[i mod len(cpus)]
\* for every index i, and raises the empty-CPU-set error, returning no map, when
\* cpus is empty.
C5_RoundRobin ==
    (fn = "assign_cpus_to_queues" /\ pc = "done") =>
        IF Len(arg.cpus) = 0
        THEN ~ret.ok /\ ret.err = "empty CPU set"
        ELSE /\ ret.ok
             /\ DOMAIN ret.val = Range(arg.queues)
             /\ \A i \in 0..(Len(arg.queues) - 1) :
                    ret.val[arg.queues[i + 1]] = <<arg.cpus[(i % Len(arg.cpus)) + 1]>>

\* ids [0,1,2] over cpus [10,20] gave {0: [10], 1: [20], 2: [10]}
C5_Witness ==
    /\ fn = "assign_cpus_to_queues" /\ pc = "done"
    /\ arg.queues = <<0, 1, 2>> /\ arg.cpus = <<10, 20>>
    /\ ret.ok
    /\ ret.val[0] = <<10>> /\ ret.val[1] = <<20>> /\ ret.val[2] = <<10>>

(***************************************************************************)
(* NicQueueConfig.parse_queue_cpu_map                                      *)
(* The pattern has three groups: a shortest run of non-colons, one or two  *)
(* colons, and a longest run of non-empty comma-separated pieces.  It is   *)
(* matched as re.finditer does: the leftmost match from the current        *)
(* position, the next search starting where the last match ended.          *)
(***************************************************************************)
\* the first index >= p holding c, or 0
FirstAt(text, p, c) ==
    IF \E i \in p..Len(text) : text[i] = c
    THEN CHOOSE i \in p..Len(text) : text[i] = c /\ \A j \in p..(i - 1) : text[j] # c
    ELSE 0

\* group 3 (non-commas, then any number of: a comma and non-commas), greedy from q,
\* where text[q] is not a comma: its last index
RECURSIVE Group3End(_, _)
Group3End(text, q) ==
    LET nxt == FirstAt(text, q, ",")
        r == IF nxt = 0 THEN Len(text) ELSE nxt - 1
    IN  IF r + 2 <= Len(text) /\ text[r + 2] # "," THEN Group3End(text, r + 2) ELSE r

NoMatch == [found |-> FALSE]

\* the match that starts exactly at p, if there is one
MatchAt(text, p) ==
    LET c == FirstAt(text, p, ":")
        NotComma(i) == i <= Len(text) /\ text[i] # ","
    IN  IF c = 0 \/ c = p THEN NoMatch
        ELSE IF c + 1 <= Len(text) /\ text[c + 1] = ":" /\ NotComma(c + 2)
        THEN [found |-> TRUE, g1 |-> SubSeq(text, p, c - 1), g2 |-> "::",
              g3 |-> SubSeq(text, c + 2, Group3End(text, c + 2)),
              end |-> Group3End(text, c + 2)]
        ELSE IF NotComma(c + 1)
        THEN [found |-> TRUE, g1 |-> SubSeq(text, p, c - 1), g2 |-> ":",
              g3 |-> SubSeq(text, c + 1, Group3End(text, c + 1)),
              end |-> Group3End(text, c + 1)]
        ELSE NoMatch

\* the next match of finditer, searching from p
RECURSIVE NextMatch(_, _)
NextMatch(text, p) ==
    IF p > Len(text) THEN NoMatch
    ELSE IF MatchAt(text, p).found THEN MatchAt(text, p)
    ELSE NextMatch(text, p + 1)

\* '::' handled like ':' with several queues: one CPU each, round robin
AssignBroadcastRoundRobin(queue_cpu_map, queues, all_cpus) ==
    IF \E i \in DOMAIN queues : queues[i] \in DOMAIN queue_cpu_map
    THEN Raise("duplicate queue")
    ELSE Ok([q \in DOMAIN queue_cpu_map \cup Range(queues) |->
                IF q \in Range(queues)
                THEN <<PickCpu(Cardinality({x \in Range(queues) : x < q}), all_cpus)>>
                ELSE queue_cpu_map[q]])

\* separator '::' : every queue gets all_cpus; a queue already in the map is refused
AssignBroadcast(queue_cpu_map, queues, all_cpus) ==
    IF \E i \in DOMAIN queues : queues[i] \in DOMAIN queue_cpu_map
    THEN Raise("duplicate queue")
    ELSE Ok([q \in DOMAIN queue_cpu_map \cup Range(queues) |->
                IF q \in Range(queues) THEN all_cpus ELSE queue_cpu_map[q]])

\* the one queue handed to the distributor like any other: it gets the first CPU only
AssignSingleFirstCpu(queue_cpu_map, queues, all_cpus) ==
    Ok(Put(queue_cpu_map, queues[1], <<all_cpus[1]>>))

\* separator ':' with one queue: queue_cpu_map[queues[0]] = all_cpus, no check
AssignSingle(queue_cpu_map, queues, all_cpus) ==
    Ok(Put(queue_cpu_map, queues[1], all_cpus))

\* separator ':' with any other number of queues: assign_cpus_to_queues, then the
\* sub-map is merged, a queue already in the map being refused
AssignDistribute(queue_cpu_map, queues, all_cpus) ==
    LET sub_map == assign_cpus_to_queues(queues, all_cpus)
    IN  IF ~sub_map.ok THEN sub_map
        ELSE IF \E q \in DOMAIN sub_map.val : q \in DOMAIN queue_cpu_map
        THEN Raise("duplicate queue")
        ELSE Ok([q \in DOMAIN queue_cpu_map \cup DOMAIN sub_map.val |->
                    IF q \in DOMAIN sub_map.val THEN sub_map.val[q]
                    ELSE queue_cpu_map[q]])

\* the body of the loop over the matches, for one match m
MapClause(queue_cpu_map, m) ==
    LET queue_part == strip(m.g1)
        cpu_part == strip(m.g3)
        queues == parse_range(queue_part)
        all_cpus == parse_range(cpu_part)
    IN  IF Len(queue_part) = 0 \/ Len(cpu_part) = 0 THEN Raise("invalid mapping format")
        ELSE IF ~queues.ok THEN queues
        ELSE IF ~all_cpus.ok THEN all_cpus
        ELSE IF m.g2 = "::" THEN AssignBroadcast(queue_cpu_map, queues.val, all_cpus.val)
        ELSE IF Len(queues.val) = 1
        THEN AssignSingle(queue_cpu_map, queues.val, all_cpus.val)
        ELSE AssignDistribute(queue_cpu_map, queues.val, all_cpus.val)

RECURSIVE MapLoop(_, _, _)
MapLoop(map_str, p, queue_cpu_map) ==
    LET m == NextMatch(map_str, p)
    IN  IF ~m.found
        THEN IF DOMAIN queue_cpu_map = {} THEN Raise("no mapping configured")
             ELSE Ok(queue_cpu_map)
        ELSE LET r == MapClause(queue_cpu_map, m)
             IN  IF ~r.ok THEN r ELSE MapLoop(map_str, m.end + 1, r.val)

parse_queue_cpu_map(map_str) == MapLoop(map_str, 1, EmptyDict)

(***************************************************************************)
(* Mapping requests: a list of clauses, each a queue spec, a separator and *)
(* a CPU spec, written out with the glue between the clauses.              *)
(***************************************************************************)
SepText(sep) == IF sep = "::" THEN <<":", ":">> ELSE <<":">>

ClauseText(cl) == RangeText(cl.q, FALSE) \o SepText(cl.sep) \o RangeText(cl.c, FALSE)

MapText(clauses, glue) == join(glue, [i \in DOMAIN clauses |-> ClauseText(clauses[i])])

\* tokens of a single-clause request: bare ids and ranges over 0..MaxClauseId
ClauseTokens == {t \in Tokens : t.b <= MaxClauseId}

\* "0-62::0-55,112-167" and "0:1,2,3,4,6-9" of the usage text, "0,2:1-2"
ExampleClauses ==
    {[q |-> <<Tok(0, 62)>>, sep |-> "::", c |-> <<Tok(0, 55), Tok(112, 167)>>],
     [q |-> <<Bare(0)>>, sep |-> ":", c |-> <<Bare(1), Bare(2), Bare(3), Bare(4), Tok(6, 9)>>],
     [q |-> <<Bare(0), Bare(2)>>, sep |-> ":", c |-> <<Tok(1, 2)>>],
     [q |-> <<Tok(0, 31)>>, sep |-> ":", c |-> <<Tok(0, 31)>>]}

SingleClauses ==
    [q : {<<t>> : t \in ClauseTokens}, sep : {":", "::"},
     c : SeqsUpTo(ClauseTokens, MaxToks) \ {<<>>}] \cup ExampleClauses

InitClause ==
    /\ pc = "call"
    /\ fn = "parse_queue_cpu_map"
    /\ src \in [clauses : {<<cl>> : cl \in SingleClauses}, glue : {<<",">>}]
    /\ arg = MapText(src.clauses, src.glue)
    /\ ret = NoRet
    /\ dev = None
    /\ loc = None

\* tokens and CPU specs of a request of several clauses, over 0..MaxMapId
MapQueueSpecs == {<<t>> : t \in {u \in Tokens : u.b <= MaxMapId /\ (u.dash => u.a < u.b)}}

MapCpuSpecs ==
    {<<Bare(x)>> : x \in 0..MaxMapId} \cup {<<Bare(x), Bare(y)>> : x, y \in 0..MaxMapId}

MapClauses == [q : MapQueueSpecs, sep : {":", "::"}, c : MapCpuSpecs]

\* "0:1,2,3:4", "0-1:5,2:6" and "0-1:5,1:6"
ExampleMaps ==
    {<<[q |-> <<Bare(0)>>, sep |-> ":", c |-> <<Bare(1), Bare(2)>>],
       [q |-> <<Bare(3)>>, sep |-> ":", c |-> <<Bare(4)>>]>>,
     <<[q |-> <<Tok(0, 1)>>, sep |-> ":", c |-> <<Bare(5)>>],
       [q |-> <<Bare(2)>>, sep |-> ":", c |-> <<Bare(6)>>]>>,
     <<[q |-> <<Tok(0, 1)>>, sep |-> ":", c |-> <<Bare(5)>>],
       [q |-> <<Bare(1)>>, sep |-> ":", c |-> <<Bare(6)>>]>>}

\* one clause, or two clauses with a comma or with an empty piece between them
InitMap ==
    /\ pc = "call"
    /\ fn = "parse_queue_cpu_map"
    /\ src \in [clauses : {<<cl>> : cl \in MapClauses}
                          \cup {<<c1, c2>> : c1 \in MapClauses, c2 \in MapClauses}
                          \cup ExampleMaps,
                glue : {<<",">>, <<",", ",">>}]
    /\ arg = MapText(src.clauses, src.glue)
    /\ ret = NoRet
    /\ dev = None
    /\ loc = None

Call_parse_queue_cpu_map ==
    /\ pc = "call"
    /\ fn = "parse_queue_cpu_map"
    /\ ret' = parse_queue_cpu_map(arg)
    /\ pc' = "done"
    /\ UNCHANGED <<fn, src, arg, dev, loc>>

NextMap == Call_parse_queue_cpu_map

SpecClause == InitClause /\ [][NextMap]_vars

SpecMap == InitMap /\ [][NextMap]_vars

(***************************************************************************)
(* What a clause assigns, as the mapping grammar defines it.               *)
(***************************************************************************)
ClauseQueues(cl) == sorted(Denotes(cl.q))

ClauseCpus(cl) == sorted(Denotes(cl.c))

\* position of queue q among the clause's queues, counted from 0
QueuePos(cl, q) == Cardinality({x \in Denotes(cl.q) : x < q})

ClauseMap(cl) ==
    IF cl.sep = "::" \/ Cardinality(Denotes(cl.q)) = 1
    THEN [q \in Denotes(cl.q) |-> ClauseCpus(cl)]
    ELSE [q \in Denotes(cl.q) |->
             <<ClauseCpus(cl)[(QueuePos(cl, q) % Len(ClauseCpus(cl))) + 1]>>]

Parsed == fn = "parse_queue_cpu_map" /\ pc = "done"

\* C1: a mapping string of two or more comma-separated clauses is split at the
\* token that contains a colon, and the returned map holds the assignments of
\* every clause.
C1_ClauseBoundary ==
    (/\ Parsed
     /\ Len(src.clauses) >= 2 /\ src.glue = <<",">>
     /\ \A i, j \in DOMAIN src.clauses :
            i # j => Denotes(src.clauses[i].q) \cap Denotes(src.clauses[j].q) = {})
    => /\ ret.ok
       /\ DOMAIN ret.val = UNION {Denotes(src.clauses[i].q) : i \in DOMAIN src.clauses}
       /\ \A i \in DOMAIN src.clauses : \A q \in Denotes(src.clauses[i].q) :
              ret.val[q] = ClauseMap(src.clauses[i])[q]

\* C2: whenever two clauses assign the same queue id the parse fails, for every
\* kind of clause; no map is returned in which an assignment was overwritten.
\* (Any error counts here, so that a violation is a returned map.)
C2_DuplicateRefused ==
    (/\ Parsed
     /\ \E i, j \in DOMAIN src.clauses :
            i # j /\ Denotes(src.clauses[i].q) \cap Denotes(src.clauses[j].q) # {})
    => ~ret.ok

\* C7: a broadcast clause Q::C maps every queue of Q to the entire CPU set of C,
\* whatever the sizes of Q and C.
C7_Broadcast ==
    (Parsed /\ Len(src.clauses) = 1 /\ src.clauses[1].sep = "::") =>
        /\ ret.ok
        /\ DOMAIN ret.val = Denotes(src.clauses[1].q)
        /\ \A q \in DOMAIN ret.val : ret.val[q] = sorted(Denotes(src.clauses[1].c))

\* "0-62::0-55,112-167": queue 62 got all 112 CPUs
C7_Witness ==
    /\ Parsed
    /\ src.clauses = <<[q |-> <<Tok(0, 62)>>, sep |-> "::",
                        c |-> <<Tok(0, 55), Tok(112, 167)>>]>>
    /\ ret.ok
    /\ DOMAIN ret.val = 0..62
    /\ Range(ret.val[62]) = (0..55) \cup (112..167)

\* C8: a clause Q:C with one queue maps it to the entire CPU set of C; with more
\* queues, the i-th queue in ascending order gets the single CPU that is
\* (i mod |C|)-th in ascending order.
C8_SingleOrDistribute ==
    (Parsed /\ Len(src.clauses) = 1 /\ src.clauses[1].sep = ":") =>
        LET cl == src.clauses[1]
            qs == sorted(Denotes(cl.q))
            cs == sorted(Denotes(cl.c))
        IN  /\ ret.ok
            /\ DOMAIN ret.val = Denotes(cl.q)
            /\ Len(qs) = 1 => ret.val[qs[1]] = cs
            /\ Len(qs) > 1 =>
                   \A i \in 0..(Len(qs) - 1) : ret.val[qs[i + 1]] = <<cs[(i % Len(cs)) + 1]>>

\* "0-2:0,1": three queues over two CPUs wrapped around
C8_Witness ==
    /\ Parsed
    /\ src.clauses = <<[q |-> <<Tok(0, 2)>>, sep |-> ":", c |-> <<Bare(0), Bare(1)>>]>>
    /\ ret.ok
    /\ ret.val[0] = <<0>> /\ ret.val[1] = <<1>> /\ ret.val[2] = <<0>>

(***************************************************************************)
(* IrqCpuBinder: interrupt labels and bind_irq_to_cpu.                     *)
(***************************************************************************)
LowerChar(c) ==
    CASE c = "A" -> "a" [] c = "B" -> "b" [] c = "C" -> "c" [] c = "D" -> "d" [] c = "E" -> "e"
      [] c = "F" -> "f" [] c = "G" -> "g" [] c = "H" -> "h" [] c = "I" -> "i" [] c = "J" -> "j"
      [] c = "K" -> "k" [] c = "L" -> "l" [] c = "M" -> "m" [] c = "N" -> "n" [] c = "O" -> "o"
      [] c = "P" -> "p" [] c = "Q" -> "q" [] c = "R" -> "r" [] c = "S" -> "s" [] c = "T" -> "t"
      [] c = "U" -> "u" [] c = "V" -> "v" [] c = "W" -> "w" [] c = "X" -> "x" [] c = "Y" -> "y"
      [] c = "Z" -> "z"
      [] OTHER -> c

\* s.lower()
lower(s) == [i \in DOMAIN s |-> LowerChar(s[i])]

\* sub in s
Contains(s, sub) ==
    \E i \in 1..(Len(s) - Len(sub) + 1) : SubSeq(s, i, i + Len(sub) - 1) = sub

is_virtio_irq(irq_desc) == Contains(lower(irq_desc), <<"v", "i", "r", "t", "i", "o">>)

\* the test for 'output' made before the test for 'input'
get_virtio_irq_type_output_first(irq_desc) ==
    IF Contains(lower(irq_desc), <<"o", "u", "t", "p", "u", "t">>) THEN "output"
    ELSE IF Contains(lower(irq_desc), <<"i", "n", "p", "u", "t">>) THEN "input"
    ELSE "unknown"

get_virtio_irq_type(irq_desc) ==
    IF Contains(lower(irq_desc), <<"i", "n", "p", "u", "t">>) THEN "input"
    ELSE IF Contains(lower(irq_desc), <<"o", "u", "t", "p", "u", "t">>) THEN "output"
    ELSE "unknown"

\* irq_list.sort(), then irq_map[irq] = irq_desc in that order
get_irq_map(listing, desc_of) ==
    LET irq_list == sorted(listing)
    IN  [i \in DOMAIN irq_list |-> [irq |-> irq_list[i], desc |-> desc_of[irq_list[i]]]]

\* every IRQ of the device kept, whatever the driver
ValidIrqsUnfiltered(irq_map, driver_type) == [i \in DOMAIN irq_map |-> irq_map[i].irq]

\* the IRQs bind_irq_to_cpu keeps: for a virtio_net driver only the input ones
ValidIrqs(irq_map, driver_type) ==
    LET is_virtio_driver == lower(driver_type) = <<"v", "i", "r", "t", "i", "o", "_", "n", "e", "t">>
        kept == SelectSeq(irq_map,
                          LAMBDA e : is_virtio_driver => get_virtio_irq_type(e.desc) = "input")
    IN  [i \in DOMAIN kept |-> kept[i].irq]

MinOf(a, b) == IF a < b THEN a ELSE b

\* every valid IRQ paired, the CPUs reused from the start when they run out
ZipTargetsWrapped(valid_irqs, cpu_list) ==
    [i \in 1..Len(valid_irqs) |-> <<valid_irqs[i], cpu_list[((i - 1) % Len(cpu_list)) + 1]>>]

\* zip(valid_irqs[:min_count], cpu_list[:min_count])
ZipTargets(valid_irqs, cpu_list) ==
    [i \in 1..MinOf(Len(valid_irqs), Len(cpu_list)) |-> <<valid_irqs[i], cpu_list[i]>>]

\* the warning printed before the loop
TruncationWarning(valid_irq_count, cpu_count) ==
    IF valid_irq_count > cpu_count THEN "more IRQs than CPUs"
    ELSE IF cpu_count > valid_irq_count THEN "more CPUs than IRQs"
    ELSE "none"

\* labels found in /proc/interrupts
LabelPool == {<<"v", "i", "r", "t", "i", "o", "0", "-", "i", "n", "p", "u", "t", ".", "0">>,
              <<"v", "i", "r", "t", "i", "o", "0", "-", "o", "u", "t", "p", "u", "t", ".", "0">>,
              <<"e", "t", "h", "0", "-", "T", "x", "R", "x", "-", "0">>}

DriverPool == {<<"v", "i", "r", "t", "i", "o", "_", "n", "e", "t">>, <<"m", "l", "x", "5", "_", "c", "o", "r", "e">>}

\* the k-th interrupt number of the device: 5, 7, 9, ...
IrqNumber(k) == 2 * k + 3

\* what /proc/irq/N/smp_affinity_list holds before the run
InitialAffinity == <<"0", "-", "3", "\n">>

\* how the kernel answers one write: the file is missing, the write raises, the
\* write is stored, or the write returns but the old value stays
WriteOutcomes == {"missing", "raises", "stored", "kept old"}

InitBind ==
    /\ pc = "call"
    /\ fn = "bind_irq_to_cpu"
    /\ src = None
    /\ \E n \in 1..MaxIrqs :
         \E desc_of \in [{IrqNumber(k) : k \in 1..n} -> LabelPool] :
           \E cpus \in (SUBSET (1..MaxBindCpus)) \ {{}} :
             \E driver \in DriverPool :
               /\ arg = [irq_map |-> get_irq_map(DOMAIN desc_of, desc_of),
                         cpu_list |-> sorted(cpus),
                         driver_type |-> driver]
               /\ dev = [content |-> [irq \in DOMAIN desc_of |-> InitialAffinity],
                         writes |-> <<>>]
    /\ ret = NoRet
    /\ loc = [valid_irqs |-> <<>>, targets |-> <<>>, i |-> 0, warn |-> "none",
              report |-> <<>>, error |-> "none"]

\* bind_irq_to_cpu up to its loop: the valid IRQs, the truncation, the warning
Bind_start ==
    /\ pc = "call"
    /\ fn = "bind_irq_to_cpu"
    /\ LET valid_irqs == ValidIrqs(arg.irq_map, arg.driver_type)
       IN  IF Len(valid_irqs) = 0
           THEN /\ loc' = [loc EXCEPT !.error = "no valid IRQ"]
                /\ pc' = "done"
           ELSE /\ loc' = [loc EXCEPT !.valid_irqs = valid_irqs,
                                      !.targets = ZipTargets(valid_irqs, arg.cpu_list),
                                      !.i = 1,
                                      !.warn = TruncationWarning(Len(valid_irqs),
                                                                 Len(arg.cpu_list))]
                /\ pc' = "loop"
    /\ UNCHANGED <<fn, src, arg, ret, dev>>

\* what the kernel shows after it stored a written CPU list
Shown(text) == text \o <<"\n">>

\* a write that raised nothing taken as done
BindVerdictTrusting(bind_result, target_cpu) == "bound"

\* what one pass of the loop reports for the value read back
BindVerdict(bind_result, target_cpu) ==
    IF bind_result # str(target_cpu) THEN "mismatch" ELSE "bound"

\* one pass of the loop over zip(target_irqs, target_cpus)
Bind_step ==
    /\ pc = "loop"
    /\ fn = "bind_irq_to_cpu"
    /\ \E outcome \in WriteOutcomes :
         LET irq == loc.targets[loc.i][1]
             target_cpu == loc.targets[loc.i][2]
             wrote == [irq |-> irq, value |-> str(target_cpu)]
             stored == IF outcome = "stored" THEN Shown(str(target_cpu))
                       ELSE dev.content[irq]
             status == CASE outcome = "missing" -> "path missing"
                         [] outcome = "raises" -> "write error"
                         [] OTHER -> BindVerdict(strip(stored), target_cpu)
         IN  /\ dev' = IF outcome = "missing" THEN dev
                       ELSE [content |-> [dev.content EXCEPT ![irq] = stored],
                             writes |-> Append(dev.writes, wrote)]
             /\ loc' = [loc EXCEPT !.i = @ + 1,
                                   !.report = Append(@, [irq |-> irq, cpu |-> target_cpu,
                                                         status |-> status])]
    /\ pc' = IF loc.i = Len(loc.targets) THEN "done" ELSE "loop"
    /\ UNCHANGED <<fn, src, arg, ret>>

NextBind == Bind_start \/ Bind_step

SpecBind == InitBind /\ [][NextBind]_vars

\* C6: the eligible IRQs (ascending) are paired with the CPUs (ascending) by
\* position, irqs[i] with cpus[i] for i < min(len(irqs), len(cpus)); a surplus on
\* either side is dropped, never wrapped; a length mismatch gives a warning and the
\* pairs are still handled.
C6_PositionalPairs ==
    (fn = "bind_irq_to_cpu" /\ pc # "call" /\ loc.error = "none") =>
        LET irqs == loc.valid_irqs
            cpus == arg.cpu_list
            n == MinOf(Len(irqs), Len(cpus))
        IN  /\ StrictlyIncreasing(irqs) /\ StrictlyIncreasing(cpus)
            /\ Len(loc.report) <= n
            /\ \A k \in DOMAIN loc.report :
                   loc.report[k].irq = irqs[k] /\ loc.report[k].cpu = cpus[k]
            /\ \A k \in DOMAIN dev.writes :
                   \E i \in 1..n : dev.writes[k] = [irq |-> irqs[i], value |-> str(cpus[i])]
            /\ \A irq \in DOMAIN dev.content :
                   (\A i \in 1..n : irqs[i] # irq) => dev.content[irq] = InitialAffinity
            /\ (Len(irqs) # Len(cpus)) <=> (loc.warn # "none")
            /\ pc = "done" => Len(loc.report) = n

\* irqs [5,7,9] and cpus [1,2]: exactly (5,1) and (7,2) were bound, IRQ 9 untouched
C6_Witness ==
    /\ fn = "bind_irq_to_cpu" /\ pc = "done"
    /\ loc.valid_irqs = <<5, 7, 9>> /\ arg.cpu_list = <<1, 2>>
    /\ loc.warn = "more IRQs than CPUs"
    /\ dev.writes = <<[irq |-> 5, value |-> <<"1">>], [irq |-> 7, value |-> <<"2">>]>>
    /\ strip(dev.content[5]) = <<"1">> /\ strip(dev.content[7]) = <<"2">>
    /\ dev.content[9] = InitialAffinity
    /\ \A k \in DOMAIN loc.report : loc.report[k].status = "bound"

(***************************************************************************)
(* q.py: calculate_speed.  Counters are Python integers of any size; an    *)
(* integer v is kept as the pair hi, lo with v = hi * MiB + lo and         *)
(* 0 <= lo < MiB, so that hi < 0 exactly when v < 0.  A rate is kept as    *)
(* the number of hundredths that round(speed, 2) denotes.                  *)
(***************************************************************************)
\* 1024 * 1024, the divisor of the byte rates
MiB == 1024 * 1024

Big(hi, lo) == [hi |-> hi, lo |-> lo]

Norm(hi, lo) == Big(hi + (lo \div MiB), lo % MiB)

BigAdd(a, b) == Norm(a.hi + b.hi, a.lo + b.lo)

BigSub(a, b) == Norm(a.hi - b.hi, a.lo - b.lo)

\* n * a for a small natural n
BigScale(a, n) == Norm(n * a.hi, n * a.lo)

BigNeg(a) == a.hi < 0

BigLess(a, b) == a.hi < b.hi \/ (a.hi = b.hi /\ a.lo < b.lo)

BigAbs(a) == IF BigNeg(a) THEN BigSub(Big(0, 0), a) ELSE a

\* 2**32
Pow32 == Big(4096, 0)

\* stats.get(queue, 0)
get(stats, queue) == IF queue \in DOMAIN stats THEN stats[queue] ELSE Big(0, 0)

\* the counter taken as reset: the current value alone
WrapFromZero(prev_val, curr_val) == curr_val

\* curr_val + (2**32 - prev_val)
WrapCorrected(prev_val, curr_val) == BigAdd(curr_val, BigSub(Pow32, prev_val))

\* diff = curr_val - prev_val, replaced when it is negative
CounterDiff(prev_val, curr_val) ==
    LET diff == BigSub(curr_val, prev_val)
    IN  IF BigNeg(diff) THEN WrapCorrected(prev_val, curr_val) ELSE diff

\* quotient and remainder of a by the small positive integer k
BigDivMod(a, k) ==
    LET rest == (a.hi % k) * MiB + a.lo
    IN  [quot |-> Big(a.hi \div k, rest \div k), rem |-> rest % k]

\* round half to even of quot + rem / den
HalfEven(quot, rem, den) ==
    IF 2 * rem > den \/ (2 * rem = den /\ quot.lo % 2 = 1)
    THEN BigAdd(quot, Big(0, 1))
    ELSE quot

\* round(diff / interval, 2) in hundredths
RoundCount(diff, interval) ==
    LET d == BigDivMod(BigScale(diff, 100), interval)
    IN  HalfEven(d.quot, d.rem, interval)

\* round(diff / interval / (1024 * 1024), 2) in hundredths
RoundBytes(diff, interval) ==
    LET n == BigScale(diff, 100)
    IN  HalfEven(Norm(0, n.hi \div interval), (n.hi % interval) * MiB + n.lo, interval * MiB)

calculate_speed(prev_stats, curr_stats, interval, is_bytes) ==
    LET all_queues == DOMAIN prev_stats \cup DOMAIN curr_stats
        diff(queue) == CounterDiff(get(prev_stats, queue), get(curr_stats, queue))
    IN  [keys |-> sorted(all_queues),
         diff |-> [queue \in all_queues |-> diff(queue)],
         speed |-> [queue \in all_queues |->
                       IF is_bytes THEN RoundBytes(diff(queue), interval)
                       ELSE RoundCount(diff(queue), interval)]]

\* counter values of the snapshots: 0, 5, 131072, 4294967290, 8589934592
CounterPool == {Big(0, 0), Big(0, 5), Big(0, 131072), Big(4095, 1048570), Big(8192, 0)}

\* snapshots: a counter for some of the queue ids
Snapshots == UNION {[ids -> CounterPool] : ids \in SUBSET (0..MaxRateId)}

\* --interval values whose float quotients are exact
Intervals == {1, 2}

InitRate ==
    /\ pc = "call"
    /\ fn = "calculate_speed"
    /\ src = None
    /\ \E prev_stats \in Snapshots, curr_stats \in Snapshots :
         \E interval \in Intervals, is_bytes \in BOOLEAN :
           arg = [prev_stats |-> prev_stats, curr_stats |-> curr_stats,
                  interval |-> interval, is_bytes |-> is_bytes]
    /\ ret = NoRet
    /\ dev = None
    /\ loc = None

Call_calculate_speed ==
    /\ pc = "call"
    /\ fn = "calculate_speed"
    /\ LET r == calculate_speed(arg.prev_stats, arg.curr_stats, arg.interval, arg.is_bytes)
       IN  /\ ret' = Ok([keys |-> r.keys, speed |-> r.speed])
           /\ loc' = r.diff
    /\ pc' = "done"
    /\ UNCHANGED <<fn, src, arg, dev>>

NextRate == Call_calculate_speed

SpecRate == InitRate /\ [][NextRate]_vars

\* the counter of an id in a snapshot, 0 when the snapshot lacks it
CounterOrZero(stats, id) == IF id \in DOMAIN stats THEN stats[id] ELSE Big(0, 0)

\* curr - prev, or curr + (2^32 - prev) when curr < prev
ClaimedDiff(prev, curr) ==
    IF BigLess(curr, prev) THEN BigAdd(curr, BigSub(Pow32, prev)) ELSE BigSub(curr, prev)

\* the rate r (hundredths) is diff / interval [/ MiB] rounded to two decimals:
\* 100 * diff is within half a hundredth of r * interval [* MiB]
IsRateOf(r, diff, interval, is_bytes) ==
    LET unit == IF is_bytes THEN Big(interval, 0) ELSE Big(0, interval)
        scaled == IF is_bytes THEN Big(r.hi * MiB * interval + r.lo * interval, 0)
                  ELSE BigScale(r, interval)
        twice == BigScale(BigAbs(BigSub(scaled, BigScale(diff, 100))), 2)
    IN  ~BigLess(unit, twice)

\* C9: calculate_speed returns one entry for every id of either snapshot and for no
\* other id; the entry is the rate of diff = curr - prev, a missing counter taken as
\* 0, and a negative diff replaced by curr + (2^32 - prev).
C9_UnionAndWraparound ==
    (fn = "calculate_speed" /\ pc = "done") =>
        LET ids == DOMAIN arg.prev_stats \cup DOMAIN arg.curr_stats
        IN  /\ ret.ok
            /\ DOMAIN ret.val.speed = ids
            /\ Range(ret.val.keys) = ids /\ StrictlyIncreasing(ret.val.keys)
            /\ \A id \in ids :
                 LET diff == ClaimedDiff(CounterOrZero(arg.prev_stats, id),
                                         CounterOrZero(arg.curr_stats, id))
                 IN  /\ loc[id] = diff
                     /\ IsRateOf(ret.val.speed[id], diff, arg.interval, arg.is_bytes)

\* prev = 4294967290 and curr = 5 for queue 0 (queue 1 new in curr), one second:
\* diff 11 and rate 11.0 for queue 0, rate 5.0 for queue 1
C9_Witness ==
    /\ fn = "calculate_speed" /\ pc = "done"
    /\ arg.prev_stats = (0 :> Big(4095, 1048570))
    /\ arg.curr_stats = (0 :> Big(0, 5)) @@ (1 :> Big(0, 5))
    /\ arg.interval = 1 /\ ~arg.is_bytes
    /\ loc[0] = Big(0, 11)
    /\ ret.val.speed[0] = Big(0, 1100) /\ ret.val.speed[1] = Big(0, 500)

\* C10: every returned rate is non-negative: the difference used for the rate
\* is >= 0 after the wraparound correction, whatever the counter values.
C10_RatesNonNegative ==
    (fn = "calculate_speed" /\ pc = "done") =>
        \A id \in DOMAIN ret.val.speed :
            ~BigNeg(loc[id]) /\ ~BigNeg(ret.val.speed[id])

\* the entries of the affinity files that were written so far
WrittenIrqs == {dev.writes[k].irq : k \in DOMAIN dev.writes}

\* C11: an IRQ is reported as bound only if the value read back from its affinity
\* file after the write equals the intended CPU; a write that raised nothing but
\* reads back another value is reported as a failure for that IRQ.
C11_BoundOnlyIfReadBack ==
    fn = "bind_irq_to_cpu" =>
        \A k \in DOMAIN loc.report :
            LET e == loc.report[k]
                seen == strip(dev.content[e.irq])
            IN  /\ e.status = "bound" => (e.irq \in WrittenIrqs /\ seen = str(e.cpu))
                /\ (e.irq \in WrittenIrqs /\ e.status # "write error" /\ seen # str(e.cpu))
                       => e.status = "mismatch"

\* the write for the first IRQ returned but the old value stayed: reported as a
\* mismatch, and the second IRQ was bound
C11_Witness ==
    /\ fn = "bind_irq_to_cpu" /\ pc = "done"
    /\ Len(dev.writes) = 2 /\ Len(loc.report) = 2
    /\ loc.report[1].status = "mismatch"
    /\ dev.content[loc.report[1].irq] = InitialAffinity
    /\ loc.report[2].status = "bound"

(***************************************************************************)
(* net.py: the configure and restore operations and main.                  *)
(***************************************************************************)
\* part.split(':', 1)
SplitFirstColon(part) ==
    LET k == CHOOSE i \in DOMAIN part :
                 part[i] = ":" /\ \A j \in 1..(i - 1) : part[j] # ":"
    IN  <<SubSeq(part, 1, k - 1), SubSeq(part, k + 1, Len(part))>>

\* one part of the flow map: its queues get the flow value, none of them twice
FlowPart(queue_flow_map, part) ==
    IF ":" \notin Range(part) THEN Raise("invalid flow format")
    ELSE LET queue_part == SplitFirstColon(part)[1]
             flow_part == SplitFirstColon(part)[2]
             queues == parse_range(queue_part)
         IN  IF ~queues.ok THEN queues
             ELSE IF ~isdigit(flow_part) THEN Raise("flow count not a number")
             ELSE IF \E q \in Range(queues.val) : q \in DOMAIN queue_flow_map
                  THEN Raise("duplicate flow queue")
             ELSE Ok([q \in DOMAIN queue_flow_map \cup Range(queues.val) |->
                         IF q \in DOMAIN queue_flow_map THEN queue_flow_map[q]
                         ELSE int(flow_part)])

RECURSIVE FlowLoop(_, _)
FlowLoop(parts, queue_flow_map) ==
    IF Len(parts) = 0
    THEN IF DOMAIN queue_flow_map = {} THEN Raise("invalid flow format")
         ELSE Ok(queue_flow_map)
    ELSE LET r == FlowPart(queue_flow_map, Head(parts))
         IN  IF ~r.ok THEN r ELSE FlowLoop(Tail(parts), r.val)

parse_queue_flow_map(map_str) == FlowLoop(RangeParts(map_str), EmptyDict)

\* an option that was not given (None) or given empty: both are false in a test
NotGiven == <<>>

Given(text) == Len(text) > 0

\* what the configure functions work out before their loop over target_queues
Plan(targets, cpu_map, flow_map, only_flow, ask) ==
    Ok([targets |-> targets, cpu_map |-> cpu_map, flow_map |-> flow_map,
        only_flow |-> only_flow, ask |-> ask])

\* for q in target_queues: if q < 0 or q >= total_queue: raise
QueuesInRange(queues, total_queue) == \A q \in queues : q >= 0 /\ q < total_queue

\* the queues take the CPUs one place further on
SpreadOverAllFromNext(total_queue, cpus) ==
    [q \in 0..(total_queue - 1) |-> <<cpus[((q + 1) % Len(cpus)) + 1]>>]

\* queue_cpu_map[q] = [cpus[idx % cpu_cnt]] for idx, q in enumerate(all_queues)
SpreadOverAll(total_queue, cpus) ==
    [q \in 0..(total_queue - 1) |-> <<cpus[(q % Len(cpus)) + 1]>>]

\* config_xps up to its loop
PlanXps(cpu_range, queue_str, total_queue) ==
    LET WithMap(m) ==
            IF ~m.ok THEN m
            ELSE IF ~QueuesInRange(DOMAIN m.val, total_queue)
                 THEN Raise("queue out of range")
            ELSE Plan(sorted(DOMAIN m.val), m.val, EmptyDict, FALSE, FALSE)
        WithCpus(cpus) ==
            IF ~cpus.ok THEN cpus
            ELSE IF Len(cpus.val) = 0 THEN Raise("empty CPU set")
            ELSE Plan(RangeList(0, total_queue - 1), SpreadOverAll(total_queue, cpus.val),
                      EmptyDict, FALSE, Len(cpus.val) # total_queue)
    IN  IF Given(queue_str) THEN WithMap(parse_queue_cpu_map(queue_str))
        ELSE WithCpus(parse_range(cpu_range))

\* config_rps from the -q part on, the flow map already parsed and checked
PlanRpsCpus(cpu_range, queue_str, flow_str, flow_map, total_queue) ==
    LET flow_targets == sorted(DOMAIN flow_map)
        all_queues == RangeList(0, total_queue - 1)
        OrAll(targets) == IF Len(targets) = 0 THEN all_queues ELSE targets
        WithMap(m) ==
            IF ~m.ok THEN m
            ELSE IF ~QueuesInRange(DOMAIN m.val, total_queue)
                 THEN Raise("queue out of range")
            ELSE IF Given(flow_str) /\ DOMAIN flow_map # DOMAIN m.val
                 THEN Raise("flow queues differ from CPU queues")
            ELSE Plan(OrAll(sorted(DOMAIN m.val)), m.val, flow_map, FALSE, FALSE)
        WithCpus(cpus) ==
            IF ~cpus.ok THEN cpus
            ELSE IF Len(cpus.val) = 0 THEN Raise("empty CPU set")
            ELSE Plan(all_queues, SpreadOverAll(total_queue, cpus.val), flow_map,
                      FALSE, Len(cpus.val) # total_queue)
    IN  IF Given(queue_str) THEN WithMap(parse_queue_cpu_map(queue_str))
        ELSE IF Given(cpu_range) THEN WithCpus(parse_range(cpu_range))
        ELSE Plan(OrAll(flow_targets), EmptyDict, flow_map, Given(flow_str), FALSE)

\* config_rps up to its loop
PlanRps(cpu_range, queue_str, flow_str, total_queue) ==
    LET WithFlow(f) ==
            IF ~f.ok THEN f
            ELSE IF ~QueuesInRange(DOMAIN f.val, total_queue)
                 THEN Raise("queue out of range")
            ELSE PlanRpsCpus(cpu_range, queue_str, flow_str, f.val, total_queue)
    IN  WithFlow(IF Given(flow_str) THEN parse_queue_flow_map(flow_str) ELSE Ok(EmptyDict))

\* restore_default up to its loop
PlanRestore(total_queue) ==
    Plan(RangeList(0, total_queue - 1), EmptyDict, EmptyDict, FALSE, FALSE)

\* queue specs of a configure request: one queue, or the queues 0..q
CfgQueueSpecs ==
    {<<Bare(q)>> : q \in 0..MaxCfgQueue} \cup {<<Tok(0, q)>> : q \in 1..MaxCfgQueue}

\* CPU specs of a configure request; CPU 32 needs a mask of two segments
CfgCpuSpecs == {<<Bare(0)>>, <<Tok(0, 1)>>, <<Tok(0, 2)>>, <<Bare(1), Bare(32)>>}

\* -q values: every single clause, and strings of two clauses
CfgMaps ==
    {MapText(<<cl>>, <<",">>) : cl \in [q : CfgQueueSpecs, sep : {":", "::"}, c : CfgCpuSpecs]}
    \cup {MapText(<<[q |-> <<Bare(0)>>, sep |-> ":", c |-> <<Bare(0)>>],
                    [q |-> <<Bare(1)>>, sep |-> ":", c |-> <<Bare(1)>>]>>, <<",">>),
          MapText(<<[q |-> <<Tok(0, 1)>>, sep |-> "::", c |-> <<Bare(0)>>],
                    [q |-> <<Bare(1)>>, sep |-> "::", c |-> <<Bare(1)>>]>>, <<",", ",">>)}

\* CPU range values: well formed ones and the reversed range "1-0"
CfgRanges == {RangeText(toks, FALSE) : toks \in CfgCpuSpecs \cup {<<Tok(1, 0)>>}}

\* -f values: QUEUES:8, and a string that names queue 0 twice
CfgFlows ==
    {RangeText(q, FALSE) \o <<":", "8">> : q \in CfgQueueSpecs}
    \cup {<<"0", ":", "8", ",", "0", ":", "8">>}

\* the command lines of a write operation: restore, or configure by -q, by the
\* CPU range, or (rps) by -f alone or together with one of the two
CfgRequests ==
    {[type |-> t, default |-> TRUE, cpu_range |-> NotGiven, queues |-> NotGiven,
      flow_cnt |-> NotGiven] : t \in {"xps", "rps"}}
    \cup {[type |-> t, default |-> FALSE, cpu_range |-> NotGiven, queues |-> m,
           flow_cnt |-> f] :
             t \in {"xps", "rps"}, m \in CfgMaps, f \in {NotGiven} \cup CfgFlows}
    \cup {[type |-> t, default |-> FALSE, cpu_range |-> r, queues |-> NotGiven,
           flow_cnt |-> f] :
             t \in {"xps", "rps"}, r \in CfgRanges, f \in {NotGiven} \cup CfgFlows}
    \cup {[type |-> t, default |-> FALSE, cpu_range |-> NotGiven, queues |-> NotGiven,
           flow_cnt |-> f] :
             t \in {"xps", "rps"}, f \in {NotGiven} \cup CfgFlows}

\* what the device shows in xps_cpus / rps_cpus before the run
CfgMasks == {<<"0", "0", "0", "0", "0", "0", "0", "0">>,
             <<"0", "0", "0", "0", "0", "0", "0", "0", ",",
               "0", "0", "0", "0", "0", "0", "0", "3">>}

\* what rps_flow_cnt holds before the run
InitialFlow == <<"0">>

NoPlan ==
    [targets |-> <<>>, cpu_map |-> EmptyDict, flow_map |-> EmptyDict,
     only_flow |-> FALSE, ask |-> FALSE]

InitConfig ==
    /\ pc = "call"
    /\ fn = "main"
    /\ src = None
    /\ arg \in {r \in CfgRequests : r.type = "xps" => r.flow_cnt = NotGiven}
    /\ \E total_queue \in 1..MaxCfgQueue, mask \in CfgMasks :
         dev = [total_queue |-> total_queue,
                mask |-> [q \in 0..(total_queue - 1) |-> mask],
                flow |-> [q \in 0..(total_queue - 1) |-> InitialFlow],
                writes |-> <<>>]
    /\ ret = NoRet
    /\ loc = [plan |-> NoPlan, i |-> 0, ok_queues |-> <<>>, fail_queues |-> <<>>,
              error |-> "none", attempted |-> <<>>, raised |-> <<>>, cancelled |-> FALSE,
              answered |-> <<>>]

\* main up to the call of an operation, and the operation up to its loop
Config_start ==
    /\ pc = "call"
    /\ fn = "main"
    /\ LET usage_error ==
               /\ ~arg.default
               /\ ~Given(arg.queues) /\ ~Given(arg.cpu_range)
               /\ (arg.type = "xps" \/ ~Given(arg.flow_cnt))
       IN  IF usage_error
           THEN /\ loc' = [loc EXCEPT !.error = "usage"]
                /\ pc' = "failed"
           ELSE \E plan \in {IF arg.default THEN PlanRestore(dev.total_queue)
                            ELSE IF arg.type = "xps"
                            THEN PlanXps(arg.cpu_range, arg.queues, dev.total_queue)
                            ELSE PlanRps(arg.cpu_range, arg.queues, arg.flow_cnt,
                                         dev.total_queue)} :
                  IF ~plan.ok
                  THEN /\ loc' = [loc EXCEPT !.error = plan.err]
                       /\ pc' = "failed"
                  ELSE /\ loc' = [loc EXCEPT !.plan = plan.val, !.i = 1]
                       /\ pc' = IF plan.val.ask THEN "prompt" ELSE "loop"
    /\ UNCHANGED <<fn, src, arg, ret, dev>>

\* input(...).strip().lower() of the confirmation loop
Answers == {<<"y">>, <<"Y", "E", "S">>, <<"n">>, <<"n", "o">>, <<>>, <<" ", "y", " ">>, <<"x">>}

\* the confirmation loop: one answer
Config_confirm ==
    /\ pc = "prompt"
    /\ fn = "main"
    /\ \E answer \in Answers :
         LET confirm == lower(strip(answer))
         IN  IF confirm \in {<<"y">>, <<"y", "e", "s">>}
             THEN pc' = "loop" /\ loc' = [loc EXCEPT !.answered = <<answer>>]
             ELSE IF confirm \in {<<"n">>, <<"n", "o">>, <<>>}
             THEN /\ pc' = "return"
                  /\ loc' = [loc EXCEPT !.ok_queues = <<>>,
                                        !.fail_queues = RangeList(0, dev.total_queue - 1),
                                        !.cancelled = TRUE,
                                        !.answered = <<answer>>]
             ELSE pc' = "prompt" /\ loc' = [loc EXCEPT !.answered = <<answer>>]
    /\ UNCHANGED <<fn, src, arg, ret, dev>>

\* how the device answers during one queue: the read of the current mask, the
\* write of the mask and the write of the flow count succeed or fail
QueueOutcomes == [read : BOOLEAN, write : BOOLEAN, flow : BOOLEAN]

\* get mask, generate_mask, set mask: an exception, or one write and its status
MaskUpdate(cpus, curr_mask, env) ==
    IF ~env.read THEN [raised |-> "mask read failed", ok |-> FALSE, wrote |-> <<>>]
    ELSE LET new_mask == generate_mask(cpus, curr_mask)
         IN  IF ~new_mask.ok THEN [raised |-> new_mask.err, ok |-> FALSE, wrote |-> <<>>]
             ELSE [raised |-> "none", ok |-> env.write,
                   wrote |-> <<[file |-> "mask", value |-> new_mask.val, done |-> env.write]>>]

config_xps_queue(cpus, curr_mask, env) ==
    LET u == MaskUpdate(cpus, curr_mask, env)
    IN  [success |-> u.ok, wrote |-> u.wrote, raised |-> u.raised]

\* has_cpus: cpus is not None; has_flow: flow_val is not None
config_rps_queue(has_cpus, cpus, has_flow, flow_val, curr_mask, env) ==
    LET u == IF has_cpus THEN MaskUpdate(cpus, curr_mask, env)
             ELSE [raised |-> "none", ok |-> TRUE, wrote |-> <<>>]
        f == IF has_flow /\ u.raised = "none"
             THEN <<[file |-> "flow", value |-> str(flow_val), done |-> env.flow]>>
             ELSE <<>>
    IN  [success |-> u.ok /\ (Len(f) = 0 \/ env.flow), wrote |-> u.wrote \o f,
         raised |-> u.raised]

\* the body of the loop of restore_default
RestoreQueue(env) ==
    [success |-> env.write,
     wrote |-> <<[file |-> "mask", value |-> <<"0">>, done |-> env.write]>>,
     raised |-> "none"]

\* the value of a file of the queue after the writes of one pass
AfterWrites(old, wrote, file) ==
    LET hits == SelectSeq(wrote, LAMBDA w : w.file = file /\ w.done)
    IN  IF Len(hits) = 0 THEN old ELSE hits[Len(hits)].value

\* the loop stopped at the first queue that failed
AfterQueueStopOnFailure(i, targets, success) ==
    IF i = Len(targets) \/ ~success THEN "return" ELSE "loop"

\* for queue in target_queues: the next queue, or the return after the last one
AfterQueue(i, targets, success) ==
    IF i = Len(targets) THEN "return" ELSE "loop"

\* one pass of the loop over target_queues
Config_step ==
    /\ pc = "loop"
    /\ fn = "main"
    /\ \E env \in QueueOutcomes :
         LET plan == loc.plan
             queue == plan.targets[loc.i]
             has_cpus == ~plan.only_flow /\ queue \in DOMAIN plan.cpu_map
             cpus == IF has_cpus THEN plan.cpu_map[queue] ELSE <<>>
             has_flow == Given(arg.flow_cnt) /\ queue \in DOMAIN plan.flow_map
             flow_val == IF has_flow THEN plan.flow_map[queue] ELSE 0
         IN  \E r \in {IF arg.default THEN RestoreQueue(env)
                        ELSE IF arg.type = "xps"
                        THEN config_xps_queue(cpus, dev.mask[queue], env)
                        ELSE config_rps_queue(has_cpus, cpus, has_flow, flow_val,
                                              dev.mask[queue], env)} :
               /\ dev' = [dev EXCEPT
                            !.mask[queue] = AfterWrites(@, r.wrote, "mask"),
                            !.flow[queue] = AfterWrites(@, r.wrote, "flow"),
                            !.writes = @ \o [k \in DOMAIN r.wrote |->
                                                [queue |-> queue, file |-> r.wrote[k].file,
                                                 value |-> r.wrote[k].value,
                                                 done |-> r.wrote[k].done]]]
               /\ loc' = [loc EXCEPT
                            !.i = @ + 1,
                            !.attempted = Append(@, queue),
                            !.raised = Append(@, r.raised),
                            !.ok_queues = IF r.success THEN Append(@, queue) ELSE @,
                            !.fail_queues = IF r.success THEN @ ELSE Append(@, queue)]
               /\ pc' = AfterQueue(loc.i, plan.targets, r.success)
    /\ UNCHANGED <<fn, src, arg, ret>>

\* main after the operation: sys.exit(0 if not failed else 1), or 1 after an error
Main_exit ==
    /\ pc \in {"return", "failed"}
    /\ fn = "main"
    /\ ret' = Ok(IF pc = "failed" THEN 1
                 ELSE IF Len(loc.fail_queues) = 0 THEN 0 ELSE 1)
    /\ pc' = "exited"
    /\ UNCHANGED <<fn, src, arg, dev, loc>>

NextConfig == Config_start \/ Config_confirm \/ Config_step \/ Main_exit

SpecConfig == InitConfig /\ [][NextConfig]_vars

\* msix.py main: run() returned, the process ends with status 0
Msix_exit ==
    /\ pc = "done"
    /\ fn = "bind_irq_to_cpu"
    /\ ret' = Ok(0)
    /\ pc' = "exited"
    /\ UNCHANGED <<fn, src, arg, dev, loc>>

\* the batch write operations of both programs, each up to the exit of its process
InitBatch == InitConfig \/ InitBind

NextBatch == NextConfig \/ NextBind \/ Msix_exit

SpecBatch == InitBatch /\ [][NextBatch]_vars

\* C12: a failure on one queue or IRQ does not stop the batch: the targets are
\* attempted in order, all of them by the time the loop is left, and when config_xps,
\* config_rps or restore_default return after the loop every target queue is in
\* exactly one of the ok list and the failed list.
C12_BatchContinues ==
    /\ (fn = "main" /\ pc \in {"loop", "return", "exited"} /\ ~loc.cancelled) =>
           /\ loc.attempted = SubSeq(loc.plan.targets, 1, Len(loc.attempted))
           /\ Range(loc.ok_queues) \cup Range(loc.fail_queues) = Range(loc.attempted)
           /\ Range(loc.ok_queues) \cap Range(loc.fail_queues) = {}
           /\ StrictlyIncreasing(loc.ok_queues) /\ StrictlyIncreasing(loc.fail_queues)
           /\ pc # "loop" => loc.attempted = loc.plan.targets
    /\ (fn = "bind_irq_to_cpu" /\ pc \in {"done", "exited"} /\ loc.error = "none") =>
           /\ Len(loc.report) = Len(loc.targets)
           /\ \A k \in DOMAIN loc.report : loc.report[k].irq = loc.targets[k][1]

\* queue 0 failed and queue 1 was still configured
C12_Witness ==
    /\ fn = "main" /\ pc = "return"
    /\ loc.fail_queues = <<0>> /\ loc.ok_queues = <<1>>
    /\ \E k \in DOMAIN dev.writes : dev.writes[k].queue = 1 /\ dev.writes[k].done

\* C13: every batch write operation (XPS configure, RPS configure, restore default,
\* IRQ bind) ends the process with a nonzero status when at least one item failed
\* and with status zero when no item failed.
C13_ExitStatus ==
    pc = "exited" =>
        /\ (fn = "main" /\ loc.error = "none" /\ ~loc.cancelled) =>
               (ret.val # 0 <=> Len(loc.fail_queues) > 0)
        /\ (fn = "bind_irq_to_cpu" /\ loc.error = "none") =>
               (ret.val # 0 <=> \E k \in DOMAIN loc.report : loc.report[k].status # "bound")

\* the errors of a malformed request: format, range and duplicate errors
RequestErrors ==
    {"invalid range format", "start > end", "invalid number", "invalid mapping format",
     "duplicate queue", "no mapping configured", "empty CPU set", "cpu outside mask",
     "queue out of range", "invalid flow format", "flow count not a number",
     "duplicate flow queue", "flow queues differ from CPU queues"}

\* C14: every format, range or duplicate error of a configure request (the CPU
\* outside the device mask included) is raised before any device write: when such
\* an error has just occurred in config_xps or config_rps, nothing was written yet.
C14_ErrorsBeforeWrites ==
    (fn = "main" /\ ~arg.default) =>
        /\ loc.error \in RequestErrors => Len(dev.writes) = 0
        /\ (Len(loc.raised) > 0 /\ loc.raised[Len(loc.raised)] \in RequestErrors) =>
               \A k \in DOMAIN dev.writes : ~dev.writes[k].done

\* C15: generate_mask fails, returning no mask, whenever some requested CPU c has
\* c // 32 >= the number of segments of the template, and succeeds for every CPU
\* set whose members are all below 32 * (segment count of the template).
C15_MaskRangeError ==
    (fn = "codec" /\ pc # "call") =>
        LET n == NumSegs(arg.mask)
        IN  /\ (\E i \in DOMAIN arg.cpus : arg.cpus[i] \div 32 >= n)
                   => (~ret.ok /\ ret.err = "cpu outside mask" /\ pc = "done")
            /\ (\A i \in DOMAIN arg.cpus : arg.cpus[i] < 32 * n) => ret.ok

\* CPU 1 fits the one-segment template, CPU 32 after it does not: no mask
C15_Witness ==
    /\ fn = "codec" /\ pc = "done"
    /\ arg.cpus = <<1, 32>> /\ NumSegs(arg.mask) = 1
    /\ ~ret.ok

\* C16: a mask returned by generate_mask has exactly as many segments as the
\* template, each of exactly 8 hex digits: never widened, never shortened.
C16_MaskShape ==
    (fn = "codec" /\ pc # "call" /\ ret.ok) =>
        LET segs == split(ret.val, ",")
        IN  /\ Len(segs) = NumSegs(arg.mask)
            /\ \A i \in DOMAIN segs :
                   Len(segs[i]) = 8 /\ \A k \in 1..8 : segs[i][k] \in HexDigits

\* CPU 1 alone in a two-segment template: two segments of 8 digits come back
C16_Witness ==
    /\ fn = "codec" /\ pc = "encoded"
    /\ arg.cpus = <<1>> /\ NumSegs(arg.mask) = 2
    /\ ret.ok /\ Len(ret.val) = 17

\* the CPU lists of the requests that denote the set S
SameSet(S) == {c \in SeqsUpTo(CpuPool, MaxCpus) \cup ExampleCpuLists : Range(c) = S}

\* C20: generate_mask depends only on the CPU set and on the number of segments of
\* the template: two valid templates of the same segment count give the same
\* result, and a bit is set in the result iff its CPU is in the set (no bit of the
\* template is carried over).
C20_TemplateBitsDiscarded ==
    (fn = "codec" /\ pc # "call") =>
        /\ \A t \in Templates :
               NumSegs(t) = NumSegs(arg.mask) =>
                   \A c \in SameSet(Range(arg.cpus)) :
                       LET other == generate_mask(c, t)
                       IN  other.ok = ret.ok /\ (ret.ok => other.val = ret.val)
        /\ ret.ok =>
               LET segs == split(ret.val, ",")
               IN  \A i \in DOMAIN segs :
                       SegCpus(segs[i], Len(segs) - i)
                           = {c \in Range(arg.cpus) : c \div 32 = Len(segs) - i}

\* CPU 1 into a template whose two segments are ffffffff: only bit 1 is set
C20_Witness ==
    /\ fn = "codec" /\ pc = "encoded"
    /\ arg.cpus = <<1>> /\ arg.mask = Rep("f", 8) \o <<",">> \o Rep("f", 8)
    /\ ret.val = Rep("0", 8) \o <<",">> \o Rep("0", 7) \o <<"2">>

(***************************************************************************)
(* Raw range strings: pieces between commas that are good tokens, tokens   *)
(* parse_range must refuse, or blank.                                      *)
(***************************************************************************)
GoodPieces ==
    {[text |-> TokenText(t), kind |-> "good", ids |-> t.a .. t.b, err |-> "none"] :
        t \in {u \in Tokens : u.b <= MaxPieceId}}
    \cup {[text |-> <<" ", "1", " ">>, kind |-> "good", ids |-> {1}, err |-> "none"]}

\* "a", "a-1", "1-2-3", "-1", "3-", "5-3"
BadPieces ==
    {[text |-> <<"a">>, kind |-> "bad", ids |-> {}, err |-> "invalid number"],
     [text |-> <<"a", "-", "1">>, kind |-> "bad", ids |-> {}, err |-> "invalid range format"],
     [text |-> <<"1", "-", "2", "-", "3">>, kind |-> "bad", ids |-> {},
      err |-> "invalid range format"],
     [text |-> <<"-", "1">>, kind |-> "bad", ids |-> {}, err |-> "invalid range format"],
     [text |-> <<"3", "-">>, kind |-> "bad", ids |-> {}, err |-> "invalid range format"],
     [text |-> <<"5", "-", "3">>, kind |-> "bad", ids |-> {}, err |-> "start > end"]}

BlankPieces ==
    {[text |-> <<>>, kind |-> "blank", ids |-> {}, err |-> "none"],
     [text |-> <<" ">>, kind |-> "blank", ids |-> {}, err |-> "none"]}

RawRanges == SeqsUpTo(GoodPieces \cup BadPieces \cup BlankPieces, MaxPieces) \ {<<>>}

InitRawRange ==
    /\ pc = "call"
    /\ fn = "parse_range"
    /\ src \in RawRanges
    /\ arg = join(<<",">>, [i \in DOMAIN src |-> src[i].text])
    /\ ret = NoRet
    /\ dev = None
    /\ loc = None

SpecRawRange == InitRawRange /\ [][NextRange]_vars

\* the positions of the pieces of a kind
PiecesOf(kind) == {i \in DOMAIN src : src[i].kind = kind}

\* C17: parse_range fails, returning no list, whenever a token is non-numeric, a
\* malformed A-B token or a range with A > B; the good tokens of such a string
\* never yield a partial result.
C17_BadTokenRefused ==
    (fn = "parse_range" /\ pc = "done" /\ PiecesOf("bad") # {}) =>
        LET first == CHOOSE i \in PiecesOf("bad") : \A j \in PiecesOf("bad") : i <= j
        IN  ~ret.ok /\ ret.err = src[first].err

\* "0-1,5-3": the good token 0-1 comes first and still nothing is returned
C17_Witness ==
    /\ fn = "parse_range" /\ pc = "done"
    /\ arg = <<"0", "-", "1", ",", "5", "-", "3">>
    /\ ~ret.ok /\ ret.err = "start > end"

\* a blank piece with a token somewhere before it and a token somewhere after it
BlankBetweenTokens ==
    \E i \in PiecesOf("blank") :
        /\ \E j \in 1..(i - 1) : src[j].kind # "blank"
        /\ \E j \in (i + 1)..Len(src) : src[j].kind # "blank"

\* C18: a token that is blank after trimming and lies between two real separators
\* ("1,,2", "1, ,2") is a format error; only the empty tokens that trailing
\* separators produce ("1,2,") are skipped.
C18_BlankMiddleRefused ==
    (fn = "parse_range" /\ pc = "done") =>
        /\ BlankBetweenTokens => ~ret.ok
        /\ (~BlankBetweenTokens /\ PiecesOf("bad") = {}) => ret.ok

\* C18 as the code has it: every token that is blank after trimming is skipped,
\* wherever it lies; the other tokens decide the result.
C18_BlankSkippedAnywhere ==
    (fn = "parse_range" /\ pc = "done" /\ PiecesOf("bad") = {}) =>
        /\ ret.ok
        /\ ret.val = sorted(UNION {src[i].ids : i \in DOMAIN src})

\* "1,,0": the blank token in the middle is skipped and [0, 1] is returned
C18_Witness ==
    /\ fn = "parse_range" /\ pc = "done"
    /\ arg = <<"1", ",", ",", "0">>
    /\ ret.ok /\ ret.val = <<0, 1>>

\* the binding is for a virtio device
VirtioBinding == lower(arg.driver_type) = <<"v", "i", "r", "t", "i", "o", "_", "n", "e", "t">>

\* the IRQs of the device whose label classifies as the direction
IrqsOfType(type) ==
    {arg.irq_map[i].irq : i \in {j \in DOMAIN arg.irq_map :
                                    get_virtio_irq_type(arg.irq_map[j].desc) = type}}

\* C19: when binding for a virtio device only interrupts whose label classifies as
\* input are ever written, those classified output or unknown are never bound; for
\* another device no interrupt is excluded because of the direction in its label.
C19_VirtioInputOnly ==
    fn = "bind_irq_to_cpu" =>
        /\ VirtioBinding =>
               /\ WrittenIrqs \subseteq IrqsOfType("input")
               /\ Range(loc.valid_irqs) \subseteq IrqsOfType("input")
               /\ \A irq \in IrqsOfType("output") \cup IrqsOfType("unknown") :
                      /\ dev.content[irq] = InitialAffinity
                      /\ \A k \in DOMAIN loc.report : loc.report[k].irq # irq
        /\ (~VirtioBinding /\ pc # "call") =>
               Range(loc.valid_irqs) = {arg.irq_map[i].irq : i \in DOMAIN arg.irq_map}

\* virtio device with IRQ 5 input, 7 output, 9 input and CPUs 1, 2: 5 and 9 are
\* bound and 7 is left alone
C19_Witness ==
    /\ fn = "bind_irq_to_cpu" /\ pc = "done" /\ VirtioBinding
    /\ IrqsOfType("input") = {5, 9} /\ IrqsOfType("output") = {7}
    /\ dev.writes = <<[irq |-> 5, value |-> <<"1">>], [irq |-> 9, value |-> <<"2">>]>>
    /\ dev.content[7] = InitialAffinity

(***************************************************************************)
(* Raw mask strings: pieces between commas that are segments of 8 hex      *)
(* digits, or something else.                                              *)
(***************************************************************************)
\* "00000000", "0000000F", "0000A5c3"
SegPieces ==
    {[text |-> Rep("0", 8), kind |-> "segment"],
     [text |-> Rep("0", 7) \o <<"F">>, kind |-> "segment"],
     [text |-> <<"0", "0", "0", "0", "A", "5", "c", "3">>, kind |-> "segment"]}

\* "", "0", "ff", "0000000g", nine digits, a segment and a newline, a blank and a segment
NonSegPieces ==
    {[text |-> <<>>, kind |-> "other"],
     [text |-> <<"0">>, kind |-> "other"],
     [text |-> <<"f", "f">>, kind |-> "other"],
     [text |-> Rep("0", 7) \o <<"g">>, kind |-> "other"],
     [text |-> Rep("0", 9), kind |-> "other"],
     [text |-> Rep("0", 8) \o <<"\n">>, kind |-> "other"],
     [text |-> <<" ">> \o Rep("0", 8), kind |-> "other"]}

RawMasks == SeqsUpTo(SegPieces \cup NonSegPieces, MaxMaskPieces) \ {<<>>}

InitRawMask ==
    /\ pc = "call"
    /\ fn = "raw codec"
    /\ src \in RawMasks
    /\ arg = [cpus |-> <<0>>, mask |-> join(<<",">>, [i \in DOMAIN src |-> src[i].text])]
    /\ ret = NoRet
    /\ dev = None
    /\ loc = NoRet

\* generate_mask(cpus, mask) with the string as the template
Raw_generate_mask ==
    /\ pc = "call"
    /\ fn = "raw codec"
    /\ ret' = generate_mask(arg.cpus, arg.mask)
    /\ pc' = "encoded"
    /\ UNCHANGED <<fn, src, arg, dev, loc>>

\* mask_to_cpus(mask) of the same string
Raw_mask_to_cpus ==
    /\ pc = "encoded"
    /\ fn = "raw codec"
    /\ loc' = mask_to_cpus(arg.mask)
    /\ pc' = "done"
    /\ UNCHANGED <<fn, src, arg, ret, dev>>

NextRawMask == Raw_generate_mask \/ Raw_mask_to_cpus

SpecRawMask == InitRawMask /\ [][NextRawMask]_vars

\* one or more comma-separated segments of exactly 8 hex digits
WellFormedMask == \A i \in DOMAIN src : src[i].kind = "segment"

\* C21: generate_mask (for its template) and mask_to_cpus each fail with a format
\* error on every mask string that is not one or more comma-separated segments of
\* exactly 8 hex digits ("0", "ff", "0000000g", "00000000,").
C21_MalformedMaskRefused ==
    (fn = "raw codec" /\ pc = "done" /\ ~WellFormedMask) =>
        /\ ~ret.ok /\ ret.err = "invalid mask format"
        /\ ~loc.ok

(***************************************************************************)
(* Raw mapping strings: comma-separated pieces that are whole clauses,     *)
(* clauses with an empty queue-part or an empty cpu-part, or tokens with   *)
(* no colon.                                                               *)
(***************************************************************************)
\* "0:1", "1::0", "1:0"
WholeClauses ==
    {[text |-> <<"0", ":", "1">>, kind |-> "whole"],
     [text |-> <<"1", ":", ":", "0">>, kind |-> "whole"],
     [text |-> <<"1", ":", "0">>, kind |-> "whole"]}

\* ":1" and " :1" have no queue-part; "0:", "0: " and "1::" have no cpu-part
EmptyPartClauses ==
    {[text |-> <<":", "1">>, kind |-> "empty part"],
     [text |-> <<" ", ":", "1">>, kind |-> "empty part"],
     [text |-> <<"0", ":">>, kind |-> "empty part"],
     [text |-> <<"0", ":", " ">>, kind |-> "empty part"],
     [text |-> <<"1", ":", ":">>, kind |-> "empty part"]}

\* "0", "0-1"
ColonlessPieces ==
    {[text |-> <<"0">>, kind |-> "no colon"],
     [text |-> <<"0", "-", "1">>, kind |-> "no colon"]}

RawMaps ==
    SeqsUpTo(WholeClauses \cup EmptyPartClauses \cup ColonlessPieces, MaxRawClauses) \ {<<>>}

InitRawMap ==
    /\ pc = "call"
    /\ fn = "parse_queue_cpu_map"
    /\ src \in RawMaps
    /\ arg = join(<<",">>, [i \in DOMAIN src |-> src[i].text])
    /\ ret = NoRet
    /\ dev = None
    /\ loc = None

SpecRawMap == InitRawMap /\ [][NextMap]_vars

\* the positions of the pieces of a kind in a raw mapping string
ClausesOf(kind) == {i \in DOMAIN src : src[i].kind = kind}

\* C22: parse_queue_cpu_map fails, returning no map, when the string has no colon,
\* when any clause has an empty queue-part or an empty cpu-part (":5", "0:",
\* "0: "), or when no clause is recognised; it never returns an empty map.
C22_MalformedMapRefused ==
    Parsed =>
        /\ ClausesOf("no colon") = DOMAIN src => ~ret.ok
        /\ ClausesOf("empty part") # {} => ~ret.ok
        /\ ret.ok => DOMAIN ret.val # {}

(***************************************************************************)
(* msix.py: IrqCpuBinder.validate_cpu_range and the bind branch of run.    *)
(***************************************************************************)
\* re.match(r'^[0-9]+(?:-[0-9]+)?(?:,[0-9]+(?:-[0-9]+)?)*$', self.cpu_range); the
\* $ of re also matches before one newline that ends the string
CpuRangeFormatOk(cpu_range) ==
    LET body == IF Len(cpu_range) > 0 /\ cpu_range[Len(cpu_range)] = "\n"
                THEN SubSeq(cpu_range, 1, Len(cpu_range) - 1) ELSE cpu_range
        parts == split(body, ",")
    IN  \A i \in DOMAIN parts :
            /\ Len(split(parts[i], "-")) \in {1, 2}
            /\ \A k \in DOMAIN split(parts[i], "-") : isdigit(split(parts[i], "-")[k])

\* the loop over cpu_range.split(','): the CPUs in the order written, or the
\* error of the first part with start > end
RECURSIVE ExpandCpuParts(_, _)
ExpandCpuParts(parts, cpu_list) ==
    IF Len(parts) = 0 THEN Ok(cpu_list)
    ELSE LET ends == split(Head(parts), "-")
             start == int(strip(ends[1]))
             end == int(strip(ends[Len(ends)]))
         IN  IF Len(ends) = 2 /\ start > end THEN Raise("start > end")
             ELSE ExpandCpuParts(Tail(parts), cpu_list \o RangeList(start, end))

\* a CPU one past the last CPU of the host let through
CpuBeyondHostLenient(cpu, max_cpu) == cpu > max_cpu

\* if cpu >= max_cpu
CpuBeyondHost(cpu, max_cpu) == cpu >= max_cpu

\* grep_out is what run_cmd returned for grep -c ^processor /proc/cpuinfo: the
\* count, or the empty string after a failed command, on which int raises
validate_cpu_range(cpu_range, grep_out) ==
    IF ~CpuRangeFormatOk(cpu_range) THEN Raise("invalid range format")
    ELSE LET cpu_list == ExpandCpuParts(split(cpu_range, ","), <<>>)
         IN  IF ~cpu_list.ok THEN cpu_list
             ELSE IF ~isdigit(grep_out) THEN Raise("cpu count unreadable")
             ELSE IF \E i \in DOMAIN cpu_list.val :
                         CpuBeyondHost(cpu_list.val[i], int(grep_out))
                  THEN Raise("cpu beyond host")
             ELSE Ok(sorted(Range(cpu_list.val)))

\* -c values: one or two tokens over 0..MaxHostCpus, a reversed range, a string
\* that ends with a newline, and strings the pattern refuses
BindCpuRanges ==
    {RangeText(toks, FALSE) :
        toks \in SeqsUpTo({t \in Tokens : t.b <= MaxHostCpus}, 2) \ {<<>>}}
    \cup {<<"1", "-", "0">>, <<"0", "\n">>, <<"0", ",">>, <<"a">>, <<" ", "0">>, <<>>}

\* the two labels of a virtio device that matter for a bind
BindLabels == {<<"v", "i", "r", "t", "i", "o", "0", "-", "i", "n", "p", "u", "t", ".", "0">>,
               <<"e", "t", "h", "0", "-", "T", "x", "R", "x", "-", "0">>}

InitMsix ==
    /\ pc = "call"
    /\ fn = "run"
    /\ \E cpu_range \in BindCpuRanges, grep_out \in {str(n) : n \in 1..MaxHostCpus} \cup {<<>>} :
         src = [cpu_range |-> cpu_range, grep_out |-> grep_out]
    /\ \E n \in 1..2 :
         \E desc_of \in [{IrqNumber(k) : k \in 1..n} -> BindLabels] :
           /\ arg = [irq_map |-> get_irq_map(DOMAIN desc_of, desc_of),
                     cpu_list |-> <<>>,
                     driver_type |-> <<"v", "i", "r", "t", "i", "o", "_", "n", "e", "t">>]
           /\ dev = [content |-> [irq \in DOMAIN desc_of |-> InitialAffinity],
                     writes |-> <<>>]
    /\ ret = NoRet
    /\ loc = [valid_irqs |-> <<>>, targets |-> <<>>, i |-> 0, warn |-> "none",
              report |-> <<>>, error |-> "none"]

\* run in bind mode: validate_cpu_range, which ends the process with status 1 on an
\* error, then bind_irq_to_cpu with the list it returned
Run_validate ==
    /\ pc = "call"
    /\ fn = "run"
    /\ \E cpus \in {validate_cpu_range(src.cpu_range, src.grep_out)} :
         IF cpus.ok
         THEN /\ fn' = "bind_irq_to_cpu"
              /\ arg' = [arg EXCEPT !.cpu_list = cpus.val]
              /\ UNCHANGED <<pc, ret, loc>>
         ELSE /\ pc' = "exited"
              /\ ret' = Ok(1)
              /\ loc' = [loc EXCEPT !.error = cpus.err]
              /\ UNCHANGED <<fn, arg>>
    /\ UNCHANGED <<src, dev>>

(***************************************************************************)
(* net.py: read_xps and read_rps as main calls them with -r.               *)
(***************************************************************************)
\* read_xps / read_rps up to the loop: the target queues
PlanRead(queue_str, total_queue) ==
    IF ~Given(queue_str) THEN Ok(RangeList(0, total_queue - 1))
    ELSE \* if ':' in queue_str: the keys of the map, else parse_range
         LET MapKeys(m) == IF m.ok THEN Ok(sorted(DOMAIN m.val)) ELSE m
             WithKeys(keys) ==
                 IF ~keys.ok THEN keys
                 ELSE IF ~QueuesInRange(Range(keys.val), total_queue)
                      THEN Raise("queue out of range")
                 ELSE keys
         IN  WithKeys(IF ":" \in Range(queue_str)
                      THEN MapKeys(parse_queue_cpu_map(queue_str))
                      ELSE parse_range(queue_str))

\* -q values of a read: queue ranges, a mapping string, or none
CfgReadQueues ==
    {RangeText(q, FALSE) : q \in CfgQueueSpecs}
    \cup {MapText(<<[q |-> q, sep |-> ":", c |-> <<Bare(0)>>]>>, <<",">>) : q \in CfgQueueSpecs}
    \cup {<<"1", "-", "0">>, NotGiven}

InitRead ==
    /\ pc = "call"
    /\ fn = "read"
    /\ src = None
    /\ arg \in [type : {"xps", "rps"}, queues : CfgReadQueues]
    /\ \E total_queue \in 1..MaxCfgQueue, mask \in CfgMasks :
         dev = [total_queue |-> total_queue,
                mask |-> [q \in 0..(total_queue - 1) |-> mask],
                flow |-> [q \in 0..(total_queue - 1) |-> InitialFlow],
                writes |-> <<>>]
    /\ ret = NoRet
    /\ loc = [targets |-> <<>>, i |-> 0, shown |-> <<>>, error |-> "none"]

Read_start ==
    /\ pc = "call"
    /\ fn = "read"
    /\ \E targets \in {PlanRead(arg.queues, dev.total_queue)} :
         IF ~targets.ok
         THEN /\ loc' = [loc EXCEPT !.error = targets.err]
              /\ pc' = "failed"
         ELSE /\ loc' = [loc EXCEPT !.targets = targets.val, !.i = 1]
              /\ pc' = IF Len(targets.val) = 0 THEN "return" ELSE "loop"
    /\ UNCHANGED <<fn, src, arg, ret, dev>>

\* one pass of the loop over target_queues: the mask is read and decoded (and for
\* rps the flow count is read), and either the CPUs or the failure is printed
Read_step ==
    /\ pc = "loop"
    /\ fn = "read"
    /\ \E mask_read \in BOOLEAN, flow_read \in BOOLEAN :
         LET queue == loc.targets[loc.i]
             cpus == mask_to_cpus(strip(dev.mask[queue]))
             line == IF mask_read /\ cpus.ok /\ (arg.type = "xps" \/ flow_read)
                     THEN [queue |-> queue, cpus |-> cpus.val, failed |-> FALSE]
                     ELSE [queue |-> queue, cpus |-> <<>>, failed |-> TRUE]
         IN  loc' = [loc EXCEPT !.i = @ + 1, !.shown = Append(@, line)]
    /\ pc' = IF loc.i = Len(loc.targets) THEN "return" ELSE "loop"
    /\ UNCHANGED <<fn, src, arg, ret, dev>>

\* main after a read: sys.exit(0), the failed list being empty, or 1 after an error
Read_exit ==
    /\ pc \in {"return", "failed"}
    /\ fn = "read"
    /\ ret' = Ok(IF pc = "failed" THEN 1 ELSE 0)
    /\ pc' = "exited"
    /\ UNCHANGED <<fn, src, arg, dev, loc>>

NextRead == Read_start \/ Read_step \/ Read_exit

\* the operations that take ids from the command line, each up to the exit of its process
InitLimits == InitConfig \/ InitRead \/ InitMsix

NextLimits == NextConfig \/ NextRead \/ Run_validate \/ NextBind \/ Msix_exit

SpecLimits == InitLimits /\ [][NextLimits]_vars

\* the queue ids a -q or -f value names, as far as the value parses
QueuesNamed(queue_str, flow_str) ==
    (IF Given(queue_str) /\ ":" \in Range(queue_str) /\ parse_queue_cpu_map(queue_str).ok
     THEN DOMAIN parse_queue_cpu_map(queue_str).val ELSE {})
    \cup (IF Given(queue_str) /\ ":" \notin Range(queue_str) /\ parse_range(queue_str).ok
          THEN Range(parse_range(queue_str).val) ELSE {})
    \cup (IF Given(flow_str) /\ parse_queue_flow_map(flow_str).ok
          THEN DOMAIN parse_queue_flow_map(flow_str).val ELSE {})

\* the CPU ids a -c value names, when it is well formed
CpusNamed(cpu_range) ==
    IF CpuRangeFormatOk(cpu_range) /\ ExpandCpuParts(split(cpu_range, ","), <<>>).ok
    THEN Range(ExpandCpuParts(split(cpu_range, ","), <<>>).val) ELSE {}

\* C23: ids are validated against the externally supplied maximum before any device
\* write: config_xps, config_rps, read_xps and read_rps fail with an error for any
\* requested queue id q >= the device's queue count, and the IRQ binder fails for any
\* CPU id >= the host's CPU count, in each case with no queue or IRQ written.
C23_IdsValidatedFirst ==
    /\ (/\ fn = "main" /\ pc # "call" /\ ~arg.default
        /\ \E q \in QueuesNamed(arg.queues, IF arg.type = "rps" THEN arg.flow_cnt ELSE NotGiven) :
              q >= dev.total_queue)
       => /\ pc \in {"failed", "exited"}
          /\ loc.error # "none"
          /\ dev.writes = <<>>
    /\ (/\ fn = "read" /\ pc # "call"
        /\ \E q \in QueuesNamed(arg.queues, NotGiven) : q >= dev.total_queue)
       => /\ pc \in {"failed", "exited"}
          /\ loc.error # "none"
          /\ loc.shown = <<>> /\ dev.writes = <<>>
    /\ (/\ fn \in {"run", "bind_irq_to_cpu"} /\ pc # "call" /\ isdigit(src.grep_out)
        /\ \E cpu \in CpusNamed(src.cpu_range) : cpu >= int(src.grep_out))
       => /\ fn = "run" /\ pc = "exited"
          /\ ret = Ok(1)
          /\ dev.writes = <<>>

\* "-c 0-2" on a host of two CPUs: the process has ended with status 1 and no
\* interrupt was written
C23_Witness ==
    /\ fn = "run" /\ pc = "exited"
    /\ src.cpu_range = <<"0", "-", "2">> /\ src.grep_out = <<"2">>
    /\ ret = Ok(1) /\ loc.error = "cpu beyond host"
    /\ dev.writes = <<>>

(***************************************************************************)
(* Interrupt labels: words joined by "-", each word written with the       *)
(* keywords it carries.                                                    *)
(***************************************************************************)
LabelWords ==
    {[text |-> <<"v", "i", "r", "t", "i", "o", "0">>, has |-> {"virtio"}],
     [text |-> <<"V", "i", "r", "t", "I", "O", "1">>, has |-> {"virtio"}],
     [text |-> <<"e", "t", "h", "0">>, has |-> {}],
     [text |-> <<"T", "x", "R", "x">>, has |-> {}],
     [text |-> <<"0">>, has |-> {}],
     [text |-> <<"v", "i", "r", "t">>, has |-> {}],
     [text |-> <<"i", "n", "p", "u">>, has |-> {}],
     [text |-> <<"i", "n", "p", "u", "t", ".", "0">>, has |-> {"input"}],
     [text |-> <<"I", "N", "P", "U", "T", ".", "1">>, has |-> {"input"}],
     [text |-> <<"o", "u", "t", "p", "u", "t", ".", "0">>, has |-> {"output"}],
     [text |-> <<"O", "u", "t", "P", "u", "t">>, has |-> {"output"}]}

Labels == SeqsUpTo(LabelWords, MaxLabelWords) \ {<<>>}

InitLabel ==
    /\ pc = "call"
    /\ fn = "classify"
    /\ src \in Labels
    /\ arg = join(<<"-">>, [i \in DOMAIN src |-> src[i].text])
    /\ ret = NoRet
    /\ dev = None
    /\ loc = None

\* if self.is_virtio_irq(irq_desc): irq_type = self.get_virtio_irq_type(irq_desc)
Call_classify ==
    /\ pc = "call"
    /\ fn = "classify"
    /\ ret' = Ok([virtio |-> is_virtio_irq(arg), type |-> get_virtio_irq_type(arg)])
    /\ pc' = "done"
    /\ UNCHANGED <<fn, src, arg, dev, loc>>

NextLabel == Call_classify

SpecLabel == InitLabel /\ [][NextLabel]_vars

\* some word of the label carries the keyword
LabelHas(word) == \E i \in DOMAIN src : word \in src[i].has

\* C24: a label is input if it contains "input" in any letter case, otherwise
\* output if it contains "output" in any letter case, otherwise unknown, so a label
\* with both words is input; it is virtio exactly when it contains "virtio" in any
\* letter case ("virtio0-input.0" is virtio and input, "eth0-TxRx-0" is not virtio).
C24_Classifier ==
    (fn = "classify" /\ pc = "done") =>
        /\ ret.val.type = (IF LabelHas("input") THEN "input"
                           ELSE IF LabelHas("output") THEN "output" ELSE "unknown")
        /\ ret.val.virtio = LabelHas("virtio")

\* "OutPut-INPUT.1": both words, output first, neither in lower case
C24_Witness ==
    /\ fn = "classify" /\ pc = "done"
    /\ arg = <<"O", "u", "t", "P", "u", "t", "-", "I", "N", "P", "U", "T", ".", "1">>
    /\ ret.val.type = "input" /\ ~ret.val.virtio

(***************************************************************************)
(* q.py: the measurement loop of main.                                     *)
(***************************************************************************)
\* what one get_queue_stats call returns: the four counter tables of queue 0
Readings ==
    {[rx_pkt |-> [q \in {0} |-> c], rx_byte |-> [q \in {0} |-> BigScale(c, 2)],
      tx_pkt |-> [q \in {0} |-> c], tx_byte |-> [q \in {0} |-> BigScale(c, 2)]] :
        c \in {Big(0, 0), Big(0, 5)}}

NoReading == [rx_pkt |-> EmptyDict, rx_byte |-> EmptyDict, tx_pkt |-> EmptyDict,
              tx_byte |-> EmptyDict]

\* the cycles of a run that are followed
MaxCycles == MaxCount + 1

InitMonitor ==
    /\ pc = "prev"
    /\ fn = "monitor"
    /\ src = None
    /\ arg \in [continuous : BOOLEAN, count : (-1)..MaxCount, interval : Intervals]
    /\ ret = NoRet
    /\ dev = None
    /\ loc = [monitor_count |-> 0, prev |-> NoReading, curr |-> NoReading,
              tables |-> <<>>, printed |-> 0, events |-> <<>>, stop |-> "none"]

\* prev_... = get_queue_stats(...)
Monitor_prev ==
    /\ pc = "prev"
    /\ fn = "monitor"
    /\ loc.monitor_count < MaxCycles
    /\ \E reading \in Readings :
         loc' = [loc EXCEPT !.prev = reading, !.events = <<"prev">>]
    /\ pc' = "sleep"
    /\ UNCHANGED <<fn, src, arg, ret, dev>>

\* time.sleep(args.interval)
Monitor_sleep ==
    /\ pc = "sleep"
    /\ fn = "monitor"
    /\ loc' = [loc EXCEPT !.events = Append(@, "wait")]
    /\ pc' = "curr"
    /\ UNCHANGED <<fn, src, arg, ret, dev>>

\* curr_... = get_queue_stats(...)
Monitor_curr ==
    /\ pc = "curr"
    /\ fn = "monitor"
    /\ \E reading \in Readings :
         loc' = [loc EXCEPT !.curr = reading, !.events = Append(@, "curr")]
    /\ pc' = "rates"
    /\ UNCHANGED <<fn, src, arg, ret, dev>>

\* the four calculate_speed calls
Monitor_rates ==
    /\ pc = "rates"
    /\ fn = "monitor"
    /\ loc' = [loc EXCEPT
                 !.tables = <<calculate_speed(loc.prev.rx_pkt, loc.curr.rx_pkt,
                                              arg.interval, FALSE).speed,
                              calculate_speed(loc.prev.rx_byte, loc.curr.rx_byte,
                                              arg.interval, TRUE).speed,
                              calculate_speed(loc.prev.tx_pkt, loc.curr.tx_pkt,
                                              arg.interval, FALSE).speed,
                              calculate_speed(loc.prev.tx_byte, loc.curr.tx_byte,
                                              arg.interval, TRUE).speed>>,
                 !.events = Append(@, "rates")]
    /\ pc' = "print"
    /\ UNCHANGED <<fn, src, arg, ret, dev>>

\* print_speed_table(...)
Monitor_print ==
    /\ pc = "print"
    /\ fn = "monitor"
    /\ loc' = [loc EXCEPT !.printed = @ + 1, !.events = Append(@, "print")]
    /\ pc' = "count"
    /\ UNCHANGED <<fn, src, arg, ret, dev>>

\* --count taken as the number of cycles also without --continuous
LeaveLoopCountFirst(continuous, count, monitor_count) ==
    IF count > 0 THEN monitor_count >= count ELSE ~continuous

\* if args.count > 0 and monitor_count >= args.count: break
\* if not args.continuous: break
LeaveLoop(continuous, count, monitor_count) ==
    (count > 0 /\ monitor_count >= count) \/ ~continuous

\* monitor_count += 1 and the two tests that leave the loop
Monitor_count ==
    /\ pc = "count"
    /\ fn = "monitor"
    /\ IF LeaveLoop(arg.continuous, arg.count, loc.monitor_count + 1)
       THEN /\ loc' = [loc EXCEPT !.monitor_count = @ + 1, !.stop = "break"]
            /\ pc' = "exited"
            /\ ret' = Ok(0)
       ELSE /\ loc' = [loc EXCEPT !.monitor_count = @ + 1]
            /\ pc' = "prev"
            /\ ret' = ret
    /\ UNCHANGED <<fn, src, arg, dev>>

\* get_queue_stats raises: except Exception: exit(1)
Monitor_fail ==
    /\ pc \in {"prev", "curr"}
    /\ fn = "monitor"
    /\ loc.monitor_count < MaxCycles
    /\ loc' = [loc EXCEPT !.stop = "error"]
    /\ pc' = "exited"
    /\ ret' = Ok(1)
    /\ UNCHANGED <<fn, src, arg, dev>>

\* except KeyboardInterrupt: the loop is left wherever it is
Monitor_interrupt ==
    /\ pc \in {"prev", "sleep", "curr", "rates", "print", "count"}
    /\ fn = "monitor"
    /\ loc.monitor_count < MaxCycles
    /\ loc' = [loc EXCEPT !.stop = "interrupt"]
    /\ pc' = "exited"
    /\ ret' = Ok(0)
    /\ UNCHANGED <<fn, src, arg, dev>>

\* the statements of the loop, which run one after the other
MonitorProgram ==
    Monitor_prev \/ Monitor_sleep \/ Monitor_curr \/ Monitor_rates \/ Monitor_print
    \/ Monitor_count

NextMonitor == MonitorProgram \/ Monitor_fail \/ Monitor_interrupt

\* the program keeps running; interrupts and failures may or may not come
SpecMonitor == InitMonitor /\ [][NextMonitor]_vars /\ WF_vars(MonitorProgram)

IsPrefix(s, t) == Len(s) <= Len(t) /\ s = SubSeq(t, 1, Len(s))

\* the cycles counted so far, the end of the loop and the order inside a cycle
CyclesAsClaimed ==
    fn = "monitor" =>
        /\ IsPrefix(loc.events, <<"prev", "wait", "curr", "rates", "print">>)
        /\ loc.printed \in {loc.monitor_count, loc.monitor_count + 1}
        /\ (loc.printed = loc.monitor_count + 1) =>
               loc.events = <<"prev", "wait", "curr", "rates", "print">>
        /\ ~arg.continuous =>
               /\ loc.monitor_count <= 1
               /\ loc.monitor_count = 1 => (pc = "exited" /\ loc.stop = "break")
        /\ (arg.continuous /\ arg.count > 0) =>
               /\ loc.monitor_count <= arg.count
               /\ loc.monitor_count = arg.count => (pc = "exited" /\ loc.stop = "break")
        /\ (pc = "exited" /\ loc.stop = "break") =>
               /\ ~(arg.continuous /\ arg.count = 0)
               /\ ~arg.continuous => loc.monitor_count = 1
               /\ (arg.continuous /\ arg.count > 0) => loc.monitor_count = arg.count

\* C25: the loop runs exactly one cycle without --continuous, whatever --count is;
\* exactly N cycles and then ends with --continuous and --count N > 0; with
\* --continuous and --count 0 it never ends by itself, only on an interrupt or an
\* error.  In every cycle the order is: the prev snapshot, the wait, the curr
\* snapshot, the four rate tables, the print.
C25_SamplingCycles ==
    /\ []CyclesAsClaimed
    /\ (fn = "monitor" /\ (~arg.continuous \/ arg.count > 0)) ~> (pc = "exited")

\* --continuous --count 2: the loop was left by itself after two printed cycles
C25_Witness ==
    /\ fn = "monitor" /\ pc = "exited" /\ loc.stop = "break"
    /\ arg.continuous /\ arg.count = 2
    /\ loc.monitor_count = 2 /\ loc.printed = 2

(***************************************************************************)
(* The confirmation prompt of config_xps and config_rps.                   *)
(***************************************************************************)
\* the request reaches the prompt: no -q, a CPU range of another size than the
\* number of queues of the device
CpuQueueMismatch ==
    LET Differs(cpus) == cpus.ok /\ Len(cpus.val) \notin {0, dev.total_queue}
    IN  /\ ~arg.default /\ ~Given(arg.queues) /\ Given(arg.cpu_range)
        /\ Differs(parse_range(arg.cpu_range))

\* the CPU of queue index i: cpus[i mod cpu count]
RoundRobinCpu(i) ==
    LET Pick(cpus) == cpus[(i % Len(cpus)) + 1]
    IN  Pick(parse_range(arg.cpu_range).val)

\* the masks that give queue index i its round-robin CPU
RoundRobinMasks(i) ==
    {generate_mask(<<RoundRobinCpu(i)>>, curr_mask).val :
        curr_mask \in {m \in CfgMasks : generate_mask(<<RoundRobinCpu(i)>>, m).ok}}

\* the last answer as the prompt reads it: trimmed, in lower case
LastConfirm == lower(strip(loc.answered[1]))

\* C26: in config_xps and config_rps without a queue mapping and with a CPU count
\* other than the queue count, no device write happens before the prompt is
\* answered; on 'n', 'no' or an empty answer nothing is ever written and the
\* result is an empty ok list with every queue of the device in the failed list;
\* on 'y' or 'yes' all queues are gone through and queue index i is written with
\* the mask of cpus[i mod cpu count]; any other answer asks again without writing.
C26_PromptGuardsWrites ==
    (fn = "main" /\ CpuQueueMismatch /\ loc.error = "none") =>
        /\ pc \in {"call", "prompt"} =>
               /\ dev.writes = <<>> /\ loc.attempted = <<>>
               /\ Len(loc.answered) > 0 =>
                      LastConfirm \notin {<<"y">>, <<"y", "e", "s">>, <<"n">>, <<"n", "o">>, <<>>}
        /\ pc \in {"loop", "return", "exited"} =>
               /\ Len(loc.answered) = 1
               /\ LastConfirm \in {<<"y">>, <<"y", "e", "s">>, <<"n">>, <<"n", "o">>, <<>>}
               /\ LastConfirm \in {<<"n">>, <<"n", "o">>, <<>>} =>
                      /\ pc # "loop"
                      /\ dev.writes = <<>> /\ loc.attempted = <<>>
                      /\ loc.ok_queues = <<>>
                      /\ loc.fail_queues = RangeList(0, dev.total_queue - 1)
               /\ LastConfirm \in {<<"y">>, <<"y", "e", "s">>} =>
                      /\ \A k \in DOMAIN loc.attempted : loc.attempted[k] = k - 1
                      /\ pc # "loop" => Len(loc.attempted) = dev.total_queue
                      /\ \A k \in DOMAIN loc.attempted :
                             loc.raised[k] = "none" =>
                                 \E w \in DOMAIN dev.writes :
                                     /\ dev.writes[w].queue = k - 1
                                     /\ dev.writes[w].file = "mask"
                      /\ \A w \in DOMAIN dev.writes :
                             dev.writes[w].file = "mask" =>
                                 dev.writes[w].value \in RoundRobinMasks(dev.writes[w].queue)

\* "-c 0-2" on two queues, answered " y ": queue 0 holds the mask of CPU 0 and
\* queue 1 the mask of CPU 1
C26_Witness ==
    /\ fn = "main" /\ pc = "exited" /\ CpuQueueMismatch
    /\ arg.cpu_range = <<"0", "-", "2">> /\ dev.total_queue = 2
    /\ loc.answered = <<(<<" ", "y", " ">>)>>
    /\ loc.ok_queues = <<0, 1>>
    /\ mask_to_cpus(dev.mask[0]) = Ok(<<0>>)
    /\ mask_to_cpus(dev.mask[1]) = Ok(<<1>>)

\* answered "no": the run ends with nothing written and both queues failed
C26_CancelWitness ==
    /\ fn = "main" /\ pc = "exited" /\ CpuQueueMismatch
    /\ loc.answered = <<(<<"n", "o">>)>> /\ dev.total_queue = 2
    /\ dev.writes = <<>> /\ loc.fail_queues = <<0, 1>>

(***************************************************************************)
(* The CPU lists of the maps parse_queue_cpu_map returns: clauses of the   *)
(* three kinds whose cpu-part is a list, or commas and blanks only.        *)
(***************************************************************************)
\* "0", "1", "0-1"
ListQueueParts == {<<"0">>, <<"1">>, <<"0", "-", "1">>}

\* "1", "0,1", "1, ", " , ", " , , "
ListCpuParts ==
    {<<"1">>, <<"0", ",", "1">>, <<"1", ",", " ">>, <<" ", ",", " ">>,
     <<" ", ",", " ", ",", " ">>}

\* broadcast (::), single queue (:) and distribute (: with several queues)
ListClauses ==
    {[text |-> q \o sep \o c,
      kind |-> IF sep = <<":", ":">> THEN "broadcast"
               ELSE IF Len(q) = 1 THEN "single queue" ELSE "distribute"] :
        q \in ListQueueParts, sep \in {<<":">>, <<":", ":">>}, c \in ListCpuParts}

InitCpuLists ==
    /\ pc = "call"
    /\ fn = "parse_queue_cpu_map"
    /\ src \in SeqsUpTo(ListClauses, MaxListClauses) \ {<<>>}
    /\ arg = join(<<",">>, [i \in DOMAIN src |-> src[i].text])
    /\ ret = NoRet
    /\ dev = None
    /\ loc = None

SpecCpuLists == InitCpuLists /\ [][NextMap]_vars

\* C27: every queue of a map returned by parse_queue_cpu_map has a non-empty CPU
\* list, for every accepted mapping string and every kind of clause.
C27_CpuListsNonEmpty ==
    (Parsed /\ ret.ok) => \A q \in DOMAIN ret.val : Len(ret.val[q]) > 0

(***************************************************************************)
(* config_rps with both -q and -f.                                         *)
(***************************************************************************)
\* the request gives a queue-to-CPU mapping and a flow-count mapping
BothMapsGiven ==
    /\ fn = "main" /\ ~arg.default /\ arg.type = "rps"
    /\ Given(arg.queues) /\ Given(arg.flow_cnt)

\* both mappings are accepted and name the same queues (or: not the same)
QueueSetsAgree(same) ==
    LET Agree(m, f) == m.ok /\ f.ok /\ ((DOMAIN m.val = DOMAIN f.val) <=> same)
    IN  Agree(parse_queue_cpu_map(arg.queues), parse_queue_flow_map(arg.flow_cnt))

\* the writes of a file of a queue issued so far
WritesOf(queue, file) ==
    {w \in DOMAIN dev.writes : dev.writes[w].queue = queue /\ dev.writes[w].file = file}

\* C28: in config_rps with both a queue-to-CPU mapping and a flow-count mapping,
\* mappings that do not name the same queues raise an error and no queue is
\* written; when they match, for each target queue the mask write and the
\* flow-count write are both attempted (the flow-count write also after a failed
\* mask write), and the queue is in the ok list only if both writes succeeded.
C28_BothWritesAttempted ==
    (BothMapsGiven /\ pc # "call") =>
        /\ QueueSetsAgree(FALSE) => (loc.error # "none" /\ dev.writes = <<>>)
        /\ (QueueSetsAgree(TRUE) /\ loc.error = "none") =>
               \A k \in DOMAIN loc.attempted :
                   /\ WritesOf(loc.attempted[k], "mask") # {}
                   /\ WritesOf(loc.attempted[k], "flow") # {}
                   /\ loc.attempted[k] \in Range(loc.ok_queues) =>
                          \A w \in DOMAIN dev.writes :
                              dev.writes[w].queue = loc.attempted[k] => dev.writes[w].done

\* what holds: both writes are issued unless the read of the current mask or
\* generate_mask raised, and then neither is
C28_BothWritesUnlessRaised ==
    (BothMapsGiven /\ pc # "call") =>
        /\ QueueSetsAgree(FALSE) => (loc.error # "none" /\ dev.writes = <<>>)
        /\ (QueueSetsAgree(TRUE) /\ loc.error = "none") =>
               \A k \in DOMAIN loc.attempted :
                   /\ loc.raised[k] = "none" =>
                          /\ WritesOf(loc.attempted[k], "mask") # {}
                          /\ WritesOf(loc.attempted[k], "flow") # {}
                   /\ loc.raised[k] # "none" =>
                          /\ WritesOf(loc.attempted[k], "mask") = {}
                          /\ WritesOf(loc.attempted[k], "flow") = {}
                          /\ loc.attempted[k] \notin Range(loc.ok_queues)
                   /\ loc.attempted[k] \in Range(loc.ok_queues) <=>
                          /\ loc.raised[k] = "none"
                          /\ \A w \in DOMAIN dev.writes :
                                 dev.writes[w].queue = loc.attempted[k] => dev.writes[w].done

\* the mask write of queue 0 failed and its flow-count write was still made
C28_FlowAfterFailedMask ==
    /\ BothMapsGiven /\ pc = "exited" /\ loc.error = "none"
    /\ \E w \in WritesOf(0, "mask") : ~dev.writes[w].done
    /\ \E w \in WritesOf(0, "flow") : dev.writes[w].done
    /\ loc.fail_queues = <<0>>

\* the read of the current mask failed: queue 0 got no write at all
C28_NoWriteAfterFailedRead ==
    /\ BothMapsGiven /\ pc = "exited" /\ loc.error = "none"
    /\ loc.raised = <<"mask read failed">>
    /\ dev.writes = <<>>
    /\ loc.fail_queues = <<0>>

====
